---- MODULE Spec2Model ----
EXTENDS Integers, Sequences, FiniteSets, TLC

(***************************************************************************)
(* SQLMINT: lexer, parser, schema catalog (MetadataManager), row store     *)
(* (TableStorage) and executor (QueryExecutor), with the two kinds of      *)
(* files they keep: data/metadata.db and data/<table>.tbl.                 *)
(*                                                                         *)
(* Text (std::string) is a sequence of one-character strings.  A file is   *)
(* its content as one such sequence, or NoFile when it does not exist.     *)
(* A Value (std::variant<int, std::string, bool>) is a pair <<tag, v>>.    *)
(***************************************************************************)

\* ------------------------------------------------------------ bounds

\* most lines ever appended to the data files, all tables together
MaxRows == 2
\* most columns of a CREATE TABLE drawn as input
MaxCols == 2
\* most values of an INSERT drawn as input
MaxVals == 2

\* ------------------------------------------------------------ characters

NL == "\n"
CR == "\r"
TAB == "\t"
BS == "\\"
PIPE == "|"
QUOTE == "'"

Digits == <<"0", "1", "2", "3", "4", "5", "6", "7", "8", "9">>

\* std::isspace in the "C" locale
IsSpace(c) == c \in {" ", TAB, NL, CR, "\f", "VT"}

IsDigit(c) == \E d \in 1..10 : Digits[d] = c

DigitValue(c) == (CHOOSE d \in 1..10 : Digits[d] = c) - 1

\* int is 32 bits wide
INT_MAX == 2147483647

\* ------------------------------------------------------------ values

DT_INTEGER == "INTEGER"
DT_VARCHAR == "VARCHAR"
DT_BOOLEAN == "BOOLEAN"

IntV(i) == <<"int", i>>
StrV(s) == <<"string", s>>
BoolV(b) == <<"bool", b>>

holds_int(value) == value[1] = "int"
holds_string(value) == value[1] = "string"
holds_bool(value) == value[1] = "bool"

Column(n, t, len, pk, nn) ==
    [name |-> n, type |-> t, varchar_length |-> len,
     is_primary_key |-> pk, is_not_null |-> nn]

\* a thrown std::exception with its what(), or a returned value; parse tells a
\* Parser::ParseError from the other exceptions
Throw(what) == [ok |-> FALSE, v |-> what, parse |-> FALSE]
Return(v) == [ok |-> TRUE, v |-> v]

\* a call whose exception is not caught here: the exception propagates,
\* otherwise the code goes on with the value returned
Try(r, Go(_)) == IF r.ok THEN Go(r.v) ELSE r

\* ------------------------------------------------------------ numbers as text

RECURSIVE NatToText(_)
NatToText(n) ==
    IF n < 10 THEN <<Digits[n + 1]>>
    ELSE NatToText(n \div 10) \o <<Digits[(n % 10) + 1]>>

\* operator<<(int) and std::to_string(int)
IntToText(n) == IF n < 0 THEN <<"-">> \o NatToText(-n) ELSE NatToText(n)

RECURSIVE SkipSpaces(_, _)
SkipSpaces(s, i) ==
    IF i <= Len(s) /\ IsSpace(s[i]) THEN SkipSpaces(s, i + 1) ELSE i

\* the numbers above INT_MAX that the digits of a text can stand for: INT_MAX + 1,
\* which is in the range of int after a minus sign, and every greater number
INT_MAX_NEXT == -1
INT_BEYOND == -2

\* the end of std::stoi giving 0 for a number out of range instead of throwing
stoi_value_unchecked(i1, sign, rd) ==
    IF rd[2] = i1 THEN Throw(<<"stoi">>)
    ELSE IF rd[1] < 0 THEN Return(0)
    ELSE Return(sign * rd[1])

\* the number acc * 10 + d of the digits read so far
with_digit(acc, d) ==
    IF acc < 0 THEN INT_BEYOND
    ELSE IF acc <= (INT_MAX - d) \div 10 THEN acc * 10 + d
    ELSE IF acc = INT_MAX \div 10 /\ d = (INT_MAX % 10) + 1 THEN INT_MAX_NEXT
    ELSE INT_BEYOND

\* the digits of s from position i on, accumulated into acc; stops at the first
\* character that is no digit.  <<value, next position>>
RECURSIVE ReadDigits(_, _, _)
ReadDigits(s, i, acc) ==
    IF i <= Len(s) /\ IsDigit(s[i])
    THEN ReadDigits(s, i + 1, with_digit(acc, DigitValue(s[i])))
    ELSE <<acc, i>>

\* the end of std::stoi: rd is <<value, next position>> of the digits read from i1
stoi_value(i1, sign, rd) ==
    IF rd[2] = i1 THEN Throw(<<"stoi">>)
    ELSE IF rd[1] = INT_BEYOND THEN Throw(<<"stoi">>)
    ELSE IF rd[1] = INT_MAX_NEXT
    THEN (IF sign < 0 THEN Return(-INT_MAX - 1) ELSE Throw(<<"stoi">>))
    ELSE Return(sign * rd[1])

\* std::stoi once the white space is skipped
stoi_signed(s, i0) ==
    IF i0 <= Len(s) /\ s[i0] = "-" THEN stoi_value(i0 + 1, -1, ReadDigits(s, i0 + 1, 0))
    ELSE IF i0 <= Len(s) /\ s[i0] = "+"
    THEN stoi_value(i0 + 1, 1, ReadDigits(s, i0 + 1, 0))
    ELSE stoi_value(i0, 1, ReadDigits(s, i0, 0))

\* std::stoi(s): leading white space, an optional sign, then the longest run of
\* digits; what follows the digits is ignored.  Throws std::invalid_argument when
\* there is no digit and std::out_of_range when the value does not fit an int.
stoi(s) == stoi_signed(s, SkipSpaces(s, 1))

\* ------------------------------------------------------------ state

VARIABLES
    tables,         \* MetadataManager::tables: table name -> its columns
    metadata_file,  \* content of <data>/metadata.db, or NoFile
    table_files,    \* table name -> content of <data>/<name>.tbl, or NoFile
    last,           \* the last call made and what it returned
    denied,         \* the file operations the system refuses at present
    tokenizer       \* the Tokenizer at work: input, current_pos, tokens pushed

vars == <<tables, metadata_file, table_files, last, denied, tokenizer>>

\* the file operations that may be refused: opening the metadata file for
\* writing, opening a data file for reading, creating it, opening it for
\* appending, and removing it
DENY_SAVE == "save"
DENY_READ == "read"
DENY_CREATE == "create"
DENY_APPEND == "append"
DENY_REMOVE == "remove"

\* a path that names no file
NoFile == <<"ENOENT">>

\* the registry of a data directory without tables
EmptyRegistry == [n \in {} |-> <<>>]

\* ------------------------------------------------------------ catalog lookups

table_exists(table_name) == table_name \in DOMAIN tables

\* the schema's columns, or the empty vector when the table is not registered
get_columns(table_name) ==
    IF table_exists(table_name) THEN tables[table_name] ELSE <<>>

\* index (from 0) of the first column with that name, or -1
get_column_index(table_name, column_name) ==
    IF \A i \in 1..Len(get_columns(table_name)) :
           get_columns(table_name)[i].name # column_name
    THEN -1
    ELSE (CHOOSE i \in 1..Len(get_columns(table_name)) :
             /\ get_columns(table_name)[i].name = column_name
             /\ \A j \in 1..(i - 1) : get_columns(table_name)[j].name # column_name) - 1

\* ------------------------------------------------------------ row store: text of a row

\* the escaping loop of serialize_value without its escapes
escaped_raw(str, i) == SubSeq(str, i, Len(str))

\* the escaping loop of serialize_value, from position i on
RECURSIVE escaped(_, _)
escaped(str, i) ==
    IF i > Len(str) THEN <<>>
    ELSE LET c == str[i]
         IN  (CASE c = PIPE -> <<BS, PIPE>>
                [] c = BS -> <<BS, BS>>
                [] c = NL -> <<BS, "n">>
                [] c = CR -> <<BS, "r">>
                [] OTHER -> <<c>>) \o escaped(str, i + 1)

serialize_value(value, type) ==
    CASE type = DT_INTEGER ->
            IF holds_int(value) THEN Return(IntToText(value[2]))
            ELSE Throw(<<"bad_variant_access">>)
      [] type = DT_VARCHAR ->
            IF holds_string(value) THEN Return(escaped(value[2], 1))
            ELSE Throw(<<"bad_variant_access">>)
      [] type = DT_BOOLEAN ->
            IF holds_bool(value) THEN Return(IF value[2] THEN <<"1">> ELSE <<"0">>)
            ELSE Throw(<<"bad_variant_access">>)

\* the unescaping loop of deserialize_value, from position i on
RECURSIVE unescaped(_, _)
unescaped(value_str, i) ==
    IF i > Len(value_str) THEN <<>>
    ELSE IF value_str[i] = BS /\ i + 1 <= Len(value_str)
    THEN LET next == value_str[i + 1]
         IN  (CASE next = PIPE -> <<PIPE>>
                [] next = BS -> <<BS>>
                [] next = "n" -> <<NL>>
                [] next = "r" -> <<CR>>
                [] OTHER -> <<next>>) \o unescaped(value_str, i + 2)
    ELSE <<value_str[i]>> \o unescaped(value_str, i + 1)

deserialize_value(value_str, type) ==
    CASE type = DT_INTEGER -> Try(stoi(value_str), LAMBDA n : Return(IntV(n)))
      [] type = DT_VARCHAR -> Return(StrV(unescaped(value_str, 1)))
      [] type = DT_BOOLEAN -> Return(BoolV(value_str = <<"1">>))
      [] OTHER -> Throw(<<"Unknown data type for deserialization">>)

\* the values of a row, serialized and joined with '|', from value i on
RECURSIVE joined(_, _, _)
joined(row, columns, i) ==
    IF i > Len(row) THEN Return(<<>>)
    ELSE Try(serialize_value(row[i], columns[i].type), LAMBDA one :
         Try(joined(row, columns, i + 1), LAMBDA rest :
         Return((IF i > 1 THEN <<PIPE>> ELSE <<>>) \o one \o rest)))

serialize_row(table_name, row) ==
    IF Len(row) # Len(get_columns(table_name))
    THEN Throw(<<"Row size doesn't match table schema">>)
    ELSE joined(row, get_columns(table_name), 1)

\* after the loop: the last field is pushed only when it is not empty or another
\* field came before it
pushed(value_strings, current_value) ==
    IF current_value # <<>> \/ value_strings # <<>>
    THEN Append(value_strings, current_value)
    ELSE value_strings

\* the splitting loop of deserialize_row: the fields once the characters from i
\* on are consumed
RECURSIVE split(_, _, _, _, _)
split(row_str, i, value_strings, current_value, esc) ==
    IF i > Len(row_str) THEN pushed(value_strings, current_value)
    ELSE IF esc
    THEN split(row_str, i + 1, value_strings, Append(current_value, row_str[i]), FALSE)
    ELSE IF row_str[i] = BS
    THEN split(row_str, i + 1, value_strings, Append(current_value, row_str[i]), TRUE)
    ELSE IF row_str[i] = PIPE
    THEN split(row_str, i + 1, Append(value_strings, current_value), <<>>, FALSE)
    ELSE split(row_str, i + 1, value_strings, Append(current_value, row_str[i]), FALSE)

\* the fields of a line
fields(row_str) == split(row_str, 1, <<>>, <<>>, FALSE)

\* the values of the fields, from field i on
RECURSIVE values_of(_, _, _)
values_of(value_strings, columns, i) ==
    IF i > Len(value_strings) THEN Return(<<>>)
    ELSE Try(deserialize_value(value_strings[i], columns[i].type), LAMBDA one :
         Try(values_of(value_strings, columns, i + 1), LAMBDA rest :
         Return(<<one>> \o rest)))

\* deserialize_row once the line is split
row_of(columns, value_strings) ==
    IF Len(value_strings) # Len(columns)
    THEN Throw(<<"Row data doesn't match table schema">>)
    ELSE values_of(value_strings, columns, 1)

deserialize_row(table_name, row_str) == row_of(get_columns(table_name), fields(row_str))

\* ------------------------------------------------------------ reading lines

\* the lines std::getline(file, line) yields in turn: each run of characters up
\* to a newline, and a last run without one when it is not empty
getlines(content) ==
    LET n == Len(content)
        newlines == {i \in 1..n : content[i] = NL}
        starts == {i \in 1..n : i = 1 \/ content[i - 1] = NL}
        start(k) == CHOOSE s \in starts : Cardinality({t \in starts : t < s}) = k - 1
        end(s) == IF \E e \in newlines : e >= s
                  THEN CHOOSE e \in newlines :
                           e >= s /\ \A f \in newlines : f >= s => e <= f
                  ELSE n + 1
    IN  [k \in 1..Cardinality(starts) |-> SubSeq(content, start(k), end(start(k)) - 1)]

\* std::getline(iss, token, ':') with the stream at position i:
\* <<token, position after the delimiter>>; the token is empty at the end
RECURSIVE getline_colon(_, _, _)
getline_colon(s, i, token) ==
    IF i > Len(s) THEN <<token, i>>
    ELSE IF s[i] = ":" THEN <<token, i + 1>>
    ELSE getline_colon(s, i + 1, Append(token, s[i]))

\* s.substr(pos, n): at most n characters from position pos (from 0) on
substr(s, pos, n) ==
    SubSeq(s, pos + 1, IF pos + n > Len(s) THEN Len(s) ELSE pos + n)

\* std::getline(iss, rest): what is left of the line
getline_rest(s, i) == IF i > Len(s) THEN <<>> ELSE SubSeq(s, i, Len(s))

\* ------------------------------------------------------------ catalog: metadata file

TXT_INTEGER ==
    <<"I", "N", "T", "E", "G", "E", "R">>
TXT_VARCHAR ==
    <<"V", "A", "R", "C", "H", "A", "R">>
TXT_BOOLEAN ==
    <<"B", "O", "O", "L", "E", "A", "N">>
TXT_UNKNOWN ==
    <<"U", "N", "K", "N", "O", "W", "N">>
TXT_TABLE ==
    <<"T", "A", "B", "L", "E", ":">>
TXT_COLUMN ==
    <<"C", "O", "L", "U", "M", "N", ":">>
TXT_META_HEADER ==
    <<"#", " ", "S", "Q", "L", " ", "D", "a", "t", "a", "b", "a", "s", "e", " ", "E",
      "n", "g", "i", "n", "e", " ", "M", "e", "t", "a", "d", "a", "t", "a", NL, "#",
      " ", "F", "o", "r", "m", "a", "t", ":", " ", "T", "A", "B", "L", "E", ":", "n",
      "a", "m", "e", ":", "c", "o", "l", "u", "m", "n", "_", "c", "o", "u", "n", "t",
      " ", "f", "o", "l", "l", "o", "w", "e", "d", " ", "b", "y", " ", "c", "o", "l",
      "u", "m", "n", " ", "d", "e", "f", "i", "n", "i", "t", "i", "o", "n", "s", NL,
      NL>>
TXT_TABLE_HEADER ==
    <<"#", " ", "T", "a", "b", "l", "e", " ", "d", "a", "t", "a", " ", "f", "o", "r",
      " ">>

serialize_data_type(type) ==
    CASE type = DT_INTEGER -> TXT_INTEGER
      [] type = DT_VARCHAR -> TXT_VARCHAR
      [] type = DT_BOOLEAN -> TXT_BOOLEAN
      [] OTHER -> TXT_UNKNOWN

deserialize_data_type(type_str) ==
    CASE type_str = TXT_INTEGER -> Return(DT_INTEGER)
      [] type_str = TXT_VARCHAR -> Return(DT_VARCHAR)
      [] type_str = TXT_BOOLEAN -> Return(DT_BOOLEAN)
      [] OTHER -> Throw(<<"Unknown data type: ", type_str>>)

serialize_column(column) ==
    TXT_COLUMN \o column.name \o <<":">> \o serialize_data_type(column.type)
    \o <<":">>
    \o (IF column.type = DT_VARCHAR THEN IntToText(column.varchar_length) ELSE <<"0">>)
    \o <<":">> \o (IF column.is_primary_key THEN <<"1">> ELSE <<"0">>)
    \o <<":">> \o (IF column.is_not_null THEN <<"1">> ELSE <<"0">>)

\* n calls of std::getline(iss, token, ':') from position i on, then
\* std::getline(iss, rest): the n tokens and the rest of the line
RECURSIVE colon_fields(_, _, _)
RECURSIVE next_field(_, _, _)
colon_fields(s, i, n) ==
    IF n = 0 THEN <<getline_rest(s, i)>>
    ELSE next_field(s, n, getline_colon(s, i, <<>>))

\* token is <<token, position after the delimiter>>
next_field(s, n, token) == <<token[1]>> \o colon_fields(s, token[2], n - 1)

\* column_of that reads neither the length nor the flags
column_without_flags(f) ==
    Try(deserialize_data_type(f[3]), LAMBDA type :
    Return(Column(f[2], type, 0, FALSE, FALSE)))

\* the column made of <<"COLUMN", name, type_str, length_str, pk_str, nn_str>>
column_of(f) ==
    Try(deserialize_data_type(f[3]), LAMBDA type :
    Try(stoi(f[4]), LAMBDA varchar_length :
    Return(Column(f[2], type, varchar_length, f[5] = <<"1">>, f[6] = <<"1">>))))

deserialize_column(column_str) == column_of(colon_fields(column_str, 1, 5))

\* the column lines of one table, from column i on
RECURSIVE column_lines(_, _)
column_lines(columns, i) ==
    IF i > Len(columns) THEN <<>>
    ELSE serialize_column(columns[i]) \o <<NL>> \o column_lines(columns, i + 1)

\* the loop of save_metadata over the registry `tabs`, visited in `order`
\* (the iteration order of the unordered_map), from table i on
RECURSIVE table_blocks(_, _, _)
table_blocks(tabs, order, i) ==
    IF i > Len(order) THEN <<>>
    ELSE TXT_TABLE \o order[i] \o <<":">> \o IntToText(Len(tabs[order[i]])) \o <<NL>>
         \o column_lines(tabs[order[i]], 1) \o <<NL>>
         \o table_blocks(tabs, order, i + 1)

\* what save_metadata writes over the metadata file
save_metadata(tabs, order) == TXT_META_HEADER \o table_blocks(tabs, order, 1)

\* tables[table_name] = schema
registered(tabs, table_name, columns) ==
    [n \in DOMAIN tabs \cup {table_name} |->
        IF n = table_name THEN columns ELSE tabs[n]]

\* the column_count column lines that follow a TABLE line, from line i on, read
\* without skipping anything: <<columns, next line>>
RECURSIVE read_columns(_, _, _, _)
read_columns(lines, i, column_count, columns) ==
    IF column_count <= 0 THEN Return(<<columns, i>>)
    ELSE IF i > Len(lines)
    THEN Throw(<<"Incomplete table definition in metadata">>)
    ELSE Try(deserialize_column(lines[i]), LAMBDA column :
         read_columns(lines, i + 1, column_count - 1, Append(columns, column)))

\* the loop of load_metadata over the lines of the file, from line i on, with
\* the registry `tabs` read so far
RECURSIVE load_lines(_, _, _)
RECURSIVE load_table(_, _, _, _)
load_lines(lines, i, tabs) ==
    IF i > Len(lines) THEN Return(tabs)
    ELSE IF lines[i] = <<>> \/ lines[i][1] = "#" THEN load_lines(lines, i + 1, tabs)
    ELSE IF substr(lines[i], 0, 6) = TXT_TABLE
    THEN load_table(lines, i, tabs, colon_fields(lines[i], 1, 2))
    ELSE load_lines(lines, i + 1, tabs)

\* the table definition at line i, made of <<"TABLE", table_name, count_str>>
load_table(lines, i, tabs, f) ==
    Try(stoi(f[3]), LAMBDA column_count :
    Try(read_columns(lines, i + 1, column_count, <<>>), LAMBDA cols :
    load_lines(lines, cols[2], registered(tabs, f[2], cols[1]))))

\* the registry a fresh MetadataManager holds after load_metadata, or what it throws
load_metadata(content) ==
    IF content = NoFile THEN Return(EmptyRegistry)
    ELSE load_lines(getlines(content), 1, EmptyRegistry)

\* ------------------------------------------------------------ catalog: operations

\* check_columns without its checks
check_columns_skipped(columns, i, primary_key_count) == Return(TRUE)

\* create_table without its checks
create_table_unchecked(table_name, columns) == Return(TRUE)

\* the loop of create_table over the columns, from column i on, having seen
\* primary_key_count primary keys, and the check that follows it
RECURSIVE check_columns(_, _, _)
check_columns(columns, i, primary_key_count) ==
    IF i > Len(columns)
    THEN (IF primary_key_count > 1
          THEN Throw(<<"Table can have at most one primary key">>)
          ELSE Return(TRUE))
    ELSE LET column == columns[i]
         IN  IF column.name = <<>> THEN Throw(<<"Column name cannot be empty">>)
             ELSE IF \E j \in 1..(i - 1) : columns[j].name = column.name
             THEN Throw(<<"Duplicate column name: ", column.name>>)
             ELSE IF column.type = DT_VARCHAR /\ column.varchar_length <= 0
             THEN Throw(<<"VARCHAR length must be positive for column: ", column.name>>)
             ELSE check_columns(columns, i + 1,
                      primary_key_count + (IF column.is_primary_key THEN 1 ELSE 0))

\* the checks of create_table, in the order the code makes them
create_table_checks(table_name, columns) ==
    IF table_exists(table_name)
    THEN Throw(<<"Table '", table_name, "' already exists">>)
    ELSE IF table_name = <<>> THEN Throw(<<"Table name cannot be empty">>)
    ELSE IF columns = <<>> THEN Throw(<<"Table must have at least one column">>)
    ELSE check_columns(columns, 1, 0)

\* erase that erases nothing
erased_nothing(tabs, table_name) == tabs

\* tables.erase(table_name)
erased(tabs, table_name) == [n \in DOMAIN tabs \ {table_name} |-> tabs[n]]

\* validate_table_name without its check
validate_table_name_skipped(table_name) == Return(TRUE)

validate_table_name(table_name) ==
    IF ~table_exists(table_name)
    THEN Throw(<<"Table '", table_name, "' does not exist">>)
    ELSE Return(TRUE)

\* check_values without its checks
check_values_skipped(columns, values, i) == Return(TRUE)

\* check_values enforcing NOT NULL instead of the types
check_values_not_null(columns, values, i) ==
    IF \E k \in 1..Len(columns) : columns[k].is_not_null
    THEN Throw(<<"NOT NULL">>)
    ELSE Return(TRUE)

\* the type validation loop of validate_insert_values, from value i on
RECURSIVE check_values(_, _, _)
check_values(columns, values, i) ==
    IF i > Len(values) THEN Return(TRUE)
    ELSE LET column == columns[i]
             value == values[i]
         IN  IF column.type = DT_VARCHAR /\ holds_string(value)
                /\ Len(value[2]) > column.varchar_length
             THEN Throw(<<"String too long for column '", column.name,
                          "', max length is ", IntToText(column.varchar_length)>>)
             ELSE IF ~(CASE column.type = DT_INTEGER -> holds_int(value)
                         [] column.type = DT_VARCHAR -> holds_string(value)
                         [] column.type = DT_BOOLEAN -> holds_bool(value)
                         [] OTHER -> FALSE)
             THEN Throw(<<"Type mismatch for column '", column.name, "'">>)
             ELSE check_values(columns, values, i + 1)

validate_insert_values(table_name, values) ==
    IF ~table_exists(table_name)
    THEN Throw(<<"Table '", table_name, "' does not exist">>)
    ELSE IF Len(values) # Len(tables[table_name])
    THEN Throw(<<"INSERT has ", IntToText(Len(values)), " values, expected ",
                 IntToText(Len(tables[table_name]))>>)
    ELSE check_values(tables[table_name], values, 1)

\* a WHERE condition: column_name, operator_type, value
WhereCondition(col, op, val) == [column_name |-> col, operator_type |-> op, value |-> val]

\* validate_where_condition without its checks
where_unchecked(table_name, condition, index) == Return(TRUE)

\* validate_where_condition, get_column having found the first column of that
\* name at position index (from 0), or none (-1)
where_checked(table_name, condition, index) ==
    IF index < 0
    THEN Throw(<<"Column '", condition.column_name,
                 "' does not exist in table '", table_name, "'">>)
    ELSE IF ~(CASE get_columns(table_name)[index + 1].type = DT_INTEGER ->
                      holds_int(condition.value)
                [] get_columns(table_name)[index + 1].type = DT_VARCHAR ->
                      holds_string(condition.value)
                [] get_columns(table_name)[index + 1].type = DT_BOOLEAN ->
                      holds_bool(condition.value)
                [] OTHER -> FALSE)
    THEN Throw(<<"Type mismatch for column '", condition.column_name, "'">>)
    ELSE Return(TRUE)

validate_where_condition(table_name, condition) ==
    where_checked(table_name, condition,
                  get_column_index(table_name, condition.column_name))

\* ------------------------------------------------------------ row store: comparison

\* the characters of the execution character set that are printed, in ASCII
\* order from 32 on ("GRAVE" stands for the grave accent, "VT" for vertical tab)
Printable ==
    <<" ", "!", "\"", "#", "$", "%", "&", "'", "(", ")", "*", "+", ",", "-", ".", "/",
      "0", "1", "2", "3", "4", "5", "6", "7", "8", "9", ":", ";", "<", "=", ">", "?",
      "@", "A", "B", "C", "D", "E", "F", "G", "H", "I", "J", "K", "L", "M", "N", "O",
      "P", "Q", "R", "S", "T", "U", "V", "W", "X", "Y", "Z", "[", "\\", "]", "^", "_",
      "GRAVE", "a", "b", "c", "d", "e", "f", "g", "h", "i", "j", "k", "l", "m", "n", "o",
      "p", "q", "r", "s", "t", "u", "v", "w", "x", "y", "z", "{", "|", "}", "~">>

\* the value of a char
CharCode(c) ==
    CASE c = TAB -> 9
      [] c = NL -> 10
      [] c = "VT" -> 11
      [] c = "\f" -> 12
      [] c = CR -> 13
      [] OTHER -> 31 + (CHOOSE i \in 1..Len(Printable) : Printable[i] = c)

\* std::string::compare from position i on: -1, 0 or 1
RECURSIVE string_compare(_, _, _)
string_compare(a, b, i) ==
    IF i > Len(a) /\ i > Len(b) THEN 0
    ELSE IF i > Len(a) THEN -1
    ELSE IF i > Len(b) THEN 1
    ELSE IF CharCode(a[i]) < CharCode(b[i]) THEN -1
    ELSE IF CharCode(a[i]) > CharCode(b[i]) THEN 1
    ELSE string_compare(a, b, i + 1)

\* std::variant<int, std::string, bool>::index()
index_of(value) ==
    CASE holds_int(value) -> 0
      [] holds_string(value) -> 1
      [] holds_bool(value) -> 2

\* the order of two values of one alternative: -1, 0 or 1
same_alternative_compare(left, right) ==
    CASE holds_int(left) ->
            (IF left[2] < right[2] THEN -1 ELSE IF left[2] > right[2] THEN 1 ELSE 0)
      [] holds_string(left) -> string_compare(left[2], right[2], 1)
      [] holds_bool(left) ->
            (IF left[2] = right[2] THEN 0 ELSE IF right[2] THEN -1 ELSE 1)

\* the relational operators of std::variant: values of different alternatives
\* are ordered by index() and nothing is thrown
variant_compare(left, right) ==
    IF index_of(left) < index_of(right) THEN -1
    ELSE IF index_of(left) > index_of(right) THEN 1
    ELSE same_alternative_compare(left, right)

\* the switch of compare_values with every case that of EQUALS
compared_equals(c, op) == c = 0

\* the switch of compare_values, c being the order of left and right
compared(c, op) ==
    CASE op = "EQUALS" -> c = 0
      [] op = "NOT_EQUALS" -> c # 0
      [] op = "LESS_THAN" -> c < 0
      [] op = "GREATER_THAN" -> c > 0
      [] op = "LESS_EQUAL" -> c <= 0
      [] op = "GREATER_EQUAL" -> c >= 0
      [] OTHER -> FALSE

compare_values(left, right, op) == compared(variant_compare(left, right), op)

\* evaluate_condition once get_column_index has returned column_index
evaluated(row, condition, column_index) ==
    IF column_index < 0 \/ column_index >= Len(row) THEN FALSE
    ELSE compare_values(row[column_index + 1], condition.value,
                        condition.operator_type)

evaluate_condition(table_name, row, condition) ==
    evaluated(row, condition, get_column_index(table_name, condition.column_name))

\* ------------------------------------------------------------ row store: operations

\* ensure_table_file writing a line of its own into the file
ensure_table_file_with_line(table_name, content) ==
    Return((IF content = NoFile THEN <<>> ELSE content) \o <<"1", NL>>)

\* the file <name>.tbl once ensure_table_file has run on `content`, or what it
\* throws: a file that cannot be opened for reading is created anew
ensure_table_file(table_name, content) ==
    IF content # NoFile /\ DENY_READ \notin denied THEN Return(content)
    ELSE IF DENY_CREATE \in denied
    THEN Throw(<<"Cannot create table file: ", table_name>>)
    ELSE Return(TXT_TABLE_HEADER \o table_name \o <<NL>>)

\* the catch clause of the loop of select_all: a line that cannot be read is skipped
kept(row) == IF row.ok THEN <<row.v>> ELSE <<>>

\* the loop of select_all over the lines of the file, from line i on
RECURSIVE scan(_, _, _)
scan(table_name, lines, i) ==
    IF i > Len(lines) THEN <<>>
    ELSE IF lines[i] = <<>> \/ lines[i][1] = "#" THEN scan(table_name, lines, i + 1)
    ELSE kept(deserialize_row(table_name, lines[i])) \o scan(table_name, lines, i + 1)

select_all(table_name, content) ==
    IF content = NoFile \/ DENY_READ \in denied
    THEN Throw(<<"Cannot open table file for reading: ", table_name>>)
    ELSE Return(scan(table_name, getlines(content), 1))

\* the filter loop of select_where, from row i on
RECURSIVE filtered(_, _, _, _)
filtered(table_name, all_rows, condition, i) ==
    IF i > Len(all_rows) THEN <<>>
    ELSE (IF evaluate_condition(table_name, all_rows[i], condition)
          THEN <<all_rows[i]>> ELSE <<>>)
         \o filtered(table_name, all_rows, condition, i + 1)

\* what a query returns or throws, and whether select_all was called for it
Scanned(r) == [ok |-> r.ok, v |-> r.v, scanned |-> TRUE]
NotScanned(r) == [ok |-> r.ok, v |-> r.v, scanned |-> FALSE]

select_where(table_name, content, condition) ==
    IF ~validate_where_condition(table_name, condition).ok
    THEN NotScanned(validate_where_condition(table_name, condition))
    ELSE Scanned(Try(select_all(table_name, content), LAMBDA all_rows :
                 Return(filtered(table_name, all_rows, condition, 1))))

\* the file once insert_row(values) has run on `content`, or what it throws
insert_row(table_name, content, values) ==
    Try(validate_insert_values(table_name, values), LAMBDA valid :
    Try(serialize_row(table_name, values), LAMBDA row_data :
    IF DENY_APPEND \in denied
    THEN Throw(<<"Cannot open table file for writing: ", table_name>>)
    ELSE Return((IF content = NoFile THEN <<>> ELSE content) \o row_data \o <<NL>>)))

\* ------------------------------------------------------------ executor

CreateTableStatement(n, cols) ==
    [type |-> "CREATE_TABLE", table_name |-> n, columns |-> cols]
DropTableStatement(n) == [type |-> "DROP_TABLE", table_name |-> n]
InsertStatement(n, vals) == [type |-> "INSERT", table_name |-> n, values |-> vals]
\* where_condition is NoCondition (the null pointer) or points to a WhereCondition
SelectStatement(n, cond) ==
    [type |-> "SELECT", table_name |-> n, where_condition |-> cond]

NoCondition == <<>>

\* what a call leaves behind: the registry, the files, and what it returned
Outcome(tabs, meta, files, ok, res, rows, scanned) ==
    [tables |-> tabs, metadata_file |-> meta, table_files |-> files,
     ok |-> ok, res |-> res, rows |-> rows, scanned |-> scanned]

\* the try block of execute: when r is an exception, nothing more is done and
\* its text is returned after "Error: "; the files are as the call left them
Catch(r, files, Go(_)) ==
    IF r.ok THEN Go(r.v)
    ELSE Outcome(tables, metadata_file, files, FALSE, <<"Error: ">> \o r.v, <<>>, FALSE)

\* the tables in the order the unordered_map iterates over them
iteration(tabs, order) == SelectSeq(order, LAMBDA n : n \in DOMAIN tabs)

\* the registry is changed to tabs and the metadata file is left as it was
Saved_not_written(tabs, order, files, res) ==
    Outcome(tabs, metadata_file, files, TRUE, res, <<>>, FALSE)

\* the registry is changed to tabs and save_metadata writes it; when the
\* metadata file cannot be opened save_metadata throws, and what was to follow
\* it (the data files becoming `files`) is not done
Saved(tabs, order, files, res) ==
    IF DENY_SAVE \in denied
    THEN Outcome(tabs, metadata_file, table_files, FALSE,
                 <<"Error: ", "Cannot open metadata file for writing">>, <<>>, FALSE)
    ELSE Outcome(tabs, save_metadata(tabs, iteration(tabs, order)), files, TRUE, res,
                 <<>>, FALSE)

\* TableStorage storage(table_name, metadata_manager): the files once the
\* constructor has run ensure_table_file
TableStorage(table_name, Go(_)) ==
    Catch(ensure_table_file(table_name, table_files[table_name]), table_files,
          LAMBDA content : Go([table_files EXCEPT ![table_name] = content]))

\* std::filesystem::remove(table_file, ec), its error being ignored
removed(files, table_name) ==
    IF DENY_REMOVE \in denied THEN files ELSE [files EXCEPT ![table_name] = NoFile]

execute_create_table(stmt, order) ==
    Catch(create_table_checks(stmt.table_name, stmt.columns), table_files,
          LAMBDA checked :
    Saved(registered(tables, stmt.table_name, stmt.columns), order, table_files,
          <<"Table '", stmt.table_name, "' created successfully.">>))

\* drop_table: erase, save_metadata, std::filesystem::remove
execute_drop_table(stmt, order) ==
    Catch(validate_table_name(stmt.table_name), table_files, LAMBDA valid :
    Saved(erased(tables, stmt.table_name), order,
          removed(table_files, stmt.table_name),
          <<"Table '", stmt.table_name, "' dropped successfully.">>))

execute_insert(stmt) ==
    Catch(validate_table_name(stmt.table_name), table_files, LAMBDA valid :
    TableStorage(stmt.table_name, LAMBDA files :
    Catch(insert_row(stmt.table_name, files[stmt.table_name], stmt.values), files,
          LAMBDA content :
    Outcome(tables, metadata_file, [files EXCEPT ![stmt.table_name] = content],
            TRUE, <<"1 row inserted into '", stmt.table_name, "'.">>, <<>>, FALSE))))

\* the end of execute_select: the rows are kept beside the last line of the text
\* format_results makes of them
Selected(files, found) ==
    IF ~found.ok
    THEN Outcome(tables, metadata_file, files, FALSE, <<"Error: ">> \o found.v, <<>>,
                 found.scanned)
    ELSE Outcome(tables, metadata_file, files, TRUE,
                 <<IntToText(Len(found.v)), " rows returned.">>, found.v,
                 found.scanned)

execute_select(stmt) ==
    Catch(validate_table_name(stmt.table_name), table_files, LAMBDA valid :
    TableStorage(stmt.table_name, LAMBDA files :
    Selected(files,
             IF stmt.where_condition # NoCondition
             THEN select_where(stmt.table_name, files[stmt.table_name],
                               stmt.where_condition[1])
             ELSE Scanned(select_all(stmt.table_name, files[stmt.table_name])))))

execute(statement, order) ==
    CASE statement.type = "CREATE_TABLE" -> execute_create_table(statement, order)
      [] statement.type = "DROP_TABLE" -> execute_drop_table(statement, order)
      [] statement.type = "INSERT" -> execute_insert(statement)
      [] statement.type = "SELECT" -> execute_select(statement)
      [] OTHER -> Catch(Throw(<<"Unknown statement type">>), table_files,
                        LAMBDA never : never)

\* ------------------------------------------------------------ lexer

\* the character peek() and advance() return at the end of the input
NUL == "NUL"

Lower ==
    <<"a", "b", "c", "d", "e", "f", "g", "h", "i", "j", "k", "l", "m", "n", "o", "p",
      "q", "r", "s", "t", "u", "v", "w", "x", "y", "z">>
Upper ==
    <<"A", "B", "C", "D", "E", "F", "G", "H", "I", "J", "K", "L", "M", "N", "O", "P",
      "Q", "R", "S", "T", "U", "V", "W", "X", "Y", "Z">>

\* toupper that leaves every character as it is
toupper_none(c) == c

\* std::toupper in the "C" locale
toupper(c) ==
    IF \E i \in 1..26 : Lower[i] = c THEN Upper[CHOOSE i \in 1..26 : Lower[i] = c]
    ELSE c

is_alpha(c) == (\E i \in 1..26 : Lower[i] = c \/ Upper[i] = c) \/ c = "_"
is_digit(c) == IsDigit(c)
is_alnum(c) == is_alpha(c) \/ is_digit(c)

\* a Token; its line and column are never read and are left out
Token(type, value) == [type |-> type, value |-> value]

keywords ==
    <<"C", "R", "E", "A", "T", "E">> :> "CREATE"
    @@ <<"D", "R", "O", "P">> :> "DROP"
    @@ <<"T", "A", "B", "L", "E">> :> "TABLE"
    @@ <<"I", "N", "S", "E", "R", "T">> :> "INSERT"
    @@ <<"I", "N", "T", "O">> :> "INTO"
    @@ <<"S", "E", "L", "E", "C", "T">> :> "SELECT"
    @@ <<"F", "R", "O", "M">> :> "FROM"
    @@ <<"W", "H", "E", "R", "E">> :> "WHERE"
    @@ <<"V", "A", "L", "U", "E", "S">> :> "VALUES"
    @@ <<"I", "N", "T", "E", "G", "E", "R">> :> "INTEGER"
    @@ <<"V", "A", "R", "C", "H", "A", "R">> :> "VARCHAR"
    @@ <<"B", "O", "O", "L", "E", "A", "N">> :> "BOOLEAN"
    @@ <<"P", "R", "I", "M", "A", "R", "Y">> :> "PRIMARY"
    @@ <<"K", "E", "Y">> :> "KEY"
    @@ <<"N", "O", "T">> :> "NOT"
    @@ <<"N", "U", "L", "L">> :> "NULL_KEYWORD"
    @@ <<"T", "R", "U", "E">> :> "BOOLEAN_LITERAL"
    @@ <<"F", "A", "L", "S", "E">> :> "BOOLEAN_LITERAL"

\* the input is `input`, and current_pos is i - 1
peek(input, i) == IF i > Len(input) THEN NUL ELSE input[i]

\* the position after advance()
advanced(input, i) == IF i > Len(input) THEN i ELSE i + 1

RECURSIVE skip_whitespace(_, _)
skip_whitespace(input, i) ==
    IF IsSpace(peek(input, i)) THEN skip_whitespace(input, i + 1) ELSE i

\* the loop of skip_comment: up to the end of the line
RECURSIVE skip_line(_, _)
skip_line(input, i) ==
    IF peek(input, i) # NL /\ peek(input, i) # NUL THEN skip_line(input, i + 1) ELSE i

skip_comment(input, i) ==
    IF peek(input, i) = "-" /\ i + 1 <= Len(input) /\ input[i + 1] = "-"
    THEN skip_line(input, i)
    ELSE i

\* the end of read_identifier: the keyword in upper case, or the identifier as written
identifier_token(value, upper_value) ==
    IF upper_value \in DOMAIN keywords
    THEN Token(keywords[upper_value], upper_value)
    ELSE Token("IDENTIFIER", value)

\* the read_* operators yield <<token, position after it>>
RECURSIVE read_identifier(_, _, _)
read_identifier(input, i, value) ==
    IF is_alnum(peek(input, i)) THEN read_identifier(input, i + 1, Append(value, input[i]))
    ELSE <<identifier_token(value, [k \in 1..Len(value) |-> toupper(value[k])]), i>>

RECURSIVE read_number(_, _, _)
read_number(input, i, value) ==
    IF is_digit(peek(input, i)) THEN read_number(input, i + 1, Append(value, input[i]))
    ELSE <<Token("INTEGER_LITERAL", value), i>>

\* unescape with every escape standing for x
unescape_to_x(c) == "x"

\* the switch of read_string: the character a backslash followed by c stands for
unescape(c) ==
    CASE c = "n" -> NL
      [] c = "t" -> TAB
      [] c = "r" -> CR
      [] c = BS -> BS
      [] c = QUOTE -> QUOTE
      [] OTHER -> c

\* the loop of read_string, the opening quote being skipped, and what follows it
RECURSIVE read_string(_, _, _)
read_string(input, i, value) ==
    IF peek(input, i) = QUOTE THEN Return(<<Token("STRING_LITERAL", value), i + 1>>)
    ELSE IF peek(input, i) = NUL THEN Throw(<<"Unterminated string literal">>)
    ELSE IF peek(input, i) = BS
    THEN read_string(input, advanced(input, i + 1),
                     Append(value, unescape(peek(input, i + 1))))
    ELSE read_string(input, i + 1, Append(value, input[i]))

\* read_operator that does not advance
read_operator_stuck(input, i, c) == <<Token("UNKNOWN", <<c>>), i>>

\* read_operator, c being the character at i
read_operator(input, i, c) ==
    CASE c = "=" -> <<Token("EQUALS", <<"=">>), i + 1>>
      [] c = "!" /\ peek(input, i + 1) = "=" ->
            <<Token("NOT_EQUALS", <<"!", "=">>), i + 2>>
      [] c = "<" /\ peek(input, i + 1) = "=" ->
            <<Token("LESS_EQUAL", <<"<", "=">>), i + 2>>
      [] c = "<" /\ peek(input, i + 1) = ">" ->
            <<Token("NOT_EQUALS", <<"<", ">">>), i + 2>>
      [] c = "<" /\ peek(input, i + 1) \notin {"=", ">"} ->
            <<Token("LESS_THAN", <<"<">>), i + 1>>
      [] c = ">" /\ peek(input, i + 1) = "=" ->
            <<Token("GREATER_EQUAL", <<">", "=">>), i + 2>>
      [] c = ">" /\ peek(input, i + 1) # "=" ->
            <<Token("GREATER_THAN", <<">">>), i + 1>>
      [] OTHER -> <<Token("UNKNOWN", <<c>>), i + 1>>

\* next_token once white space and a comment are skipped, c being peek()
token_at(input, i, c) ==
    IF i > Len(input) THEN Return(<<Token("END_OF_FILE", <<>>), i>>)
    ELSE IF is_alpha(c) THEN Return(read_identifier(input, i, <<>>))
    ELSE IF is_digit(c) THEN Return(read_number(input, i, <<>>))
    ELSE IF c = QUOTE THEN read_string(input, i + 1, <<>>)
    ELSE IF c \in {"=", "!", "<", ">"} THEN Return(read_operator(input, i, c))
    ELSE Return(<<Token(CASE c = ";" -> "SEMICOLON"
                          [] c = "," -> "COMMA"
                          [] c = "(" -> "LEFT_PAREN"
                          [] c = ")" -> "RIGHT_PAREN"
                          [] c = "*" -> "ASTERISK"
                          [] OTHER -> "UNKNOWN", <<c>>), i + 1>>)

\* next_token with the position at the token
token_from(input, i) == token_at(input, i, peek(input, i))

next_token(input, i) ==
    token_from(input, skip_whitespace(input, skip_comment(input, skip_whitespace(input, i))))

\* the loop of tokenize from position i on
RECURSIVE tokens_from(_, _)
tokens_from(input, i) ==
    Try(next_token(input, i), LAMBDA token :
    IF token[1].type = "END_OF_FILE" THEN Return(<<token[1]>>)
    ELSE Try(tokens_from(input, token[2]), LAMBDA tokens :
         Return(<<token[1]>> \o tokens)))

tokenize(input) == tokens_from(input, 1)

token_type_to_string(type) == IF type = "NULL_KEYWORD" THEN "NULL" ELSE type

\* ------------------------------------------------------------ parser

\* a thrown Parser::ParseError
ParseError(what) == [ok |-> FALSE, v |-> what, parse |-> TRUE]

\* Parser::peek() with current_pos = pos - 1
peek_token(tokens, pos) ==
    IF pos > Len(tokens) THEN Token("END_OF_FILE", <<>>) ELSE tokens[pos]

\* the position after Parser::advance()
advance_token(tokens, pos) == IF pos <= Len(tokens) THEN pos + 1 ELSE pos

\* expect(type, error_message): the position after the token, or the error
expect(tokens, pos, type, error_message) ==
    IF peek_token(tokens, pos).type = type THEN Return(advance_token(tokens, pos))
    ELSE ParseError(<<error_message, ", got ",
                      token_type_to_string(peek_token(tokens, pos).type)>>)

\* the parse_* operators yield <<what is parsed, position after it>>
parse_value(tokens, pos) ==
    CASE peek_token(tokens, pos).type = "INTEGER_LITERAL" ->
            Try(stoi(peek_token(tokens, pos).value), LAMBDA value :
            Return(<<IntV(value), advance_token(tokens, pos)>>))
      [] peek_token(tokens, pos).type = "STRING_LITERAL" ->
            Return(<<StrV(peek_token(tokens, pos).value), advance_token(tokens, pos)>>)
      [] peek_token(tokens, pos).type = "BOOLEAN_LITERAL" ->
            Return(<<BoolV([k \in 1..Len(peek_token(tokens, pos).value) |->
                               toupper(peek_token(tokens, pos).value[k])]
                           = <<"T", "R", "U", "E">>),
                     advance_token(tokens, pos)>>)
      [] OTHER -> ParseError(<<"Expected value">>)

parse_where_clause(tokens, pos) ==
    IF peek_token(tokens, pos).type # "IDENTIFIER"
    THEN ParseError(<<"Expected column name in WHERE clause">>)
    ELSE IF peek_token(tokens, pos + 1).type \notin
                {"EQUALS", "NOT_EQUALS", "LESS_THAN", "GREATER_THAN", "LESS_EQUAL",
                 "GREATER_EQUAL"}
    THEN ParseError(<<"Expected comparison operator in WHERE clause">>)
    ELSE Try(parse_value(tokens, pos + 2), LAMBDA value :
         Return(<<WhereCondition(peek_token(tokens, pos).value,
                                 peek_token(tokens, pos + 1).type, value[1]),
                  value[2]>>))

\* <<data type, varchar_length, position>>
parse_data_type(tokens, pos) ==
    CASE peek_token(tokens, pos).type = "INTEGER" -> Return(<<DT_INTEGER, 0, pos + 1>>)
      [] peek_token(tokens, pos).type = "BOOLEAN" -> Return(<<DT_BOOLEAN, 0, pos + 1>>)
      [] peek_token(tokens, pos).type = "VARCHAR" ->
            Try(expect(tokens, pos + 1, "LEFT_PAREN", "Expected '(' after VARCHAR"),
                LAMBDA p1 :
            IF peek_token(tokens, p1).type # "INTEGER_LITERAL"
            THEN ParseError(<<"Expected VARCHAR length">>)
            ELSE Try(stoi(peek_token(tokens, p1).value), LAMBDA varchar_length :
                 Try(expect(tokens, p1 + 1, "RIGHT_PAREN",
                            "Expected ')' after VARCHAR length"), LAMBDA p2 :
                 Return(<<DT_VARCHAR, varchar_length, p2>>))))
      [] OTHER -> ParseError(<<"Expected data type">>)

\* the loop of parse_constraints
RECURSIVE parse_constraints(_, _, _)
parse_constraints(tokens, pos, constraints) ==
    CASE peek_token(tokens, pos).type = "PRIMARY" ->
            Try(expect(tokens, pos + 1, "KEY", "Expected KEY after PRIMARY"), LAMBDA p :
            parse_constraints(tokens, p, Append(constraints, "PRIMARY_KEY")))
      [] peek_token(tokens, pos).type = "NOT" ->
            Try(expect(tokens, pos + 1, "NULL_KEYWORD", "Expected NULL after NOT"),
                LAMBDA p :
            parse_constraints(tokens, p, Append(constraints, "NOT_NULL")))
      [] OTHER -> Return(<<constraints, pos>>)

\* std::find(constraints.begin(), constraints.end(), c) != constraints.end()
found(constraints, c) == \E k \in 1..Len(constraints) : constraints[k] = c

parse_column_definition(tokens, pos) ==
    IF peek_token(tokens, pos).type # "IDENTIFIER"
    THEN ParseError(<<"Expected column name">>)
    ELSE Try(parse_data_type(tokens, pos + 1), LAMBDA data_type :
         Try(parse_constraints(tokens, data_type[3], <<>>), LAMBDA constraints :
         Return(<<Column(peek_token(tokens, pos).value, data_type[1], data_type[2],
                         found(constraints[1], "PRIMARY_KEY"),
                         found(constraints[1], "NOT_NULL")),
                  constraints[2]>>)))

\* the do-while loop of parse_create_table: <<columns, position>>
RECURSIVE column_definitions(_, _, _)
column_definitions(tokens, pos, columns) ==
    IF peek_token(tokens, pos).type = "RIGHT_PAREN" THEN Return(<<columns, pos>>)
    ELSE Try(parse_column_definition(tokens, pos), LAMBDA column :
         IF peek_token(tokens, column[2]).type = "COMMA"
         THEN column_definitions(tokens, column[2] + 1, Append(columns, column[1]))
         ELSE Return(<<Append(columns, column[1]), column[2]>>))

\* the do-while loop of parse_insert: <<values, position>>
RECURSIVE value_list(_, _, _)
value_list(tokens, pos, values) ==
    IF peek_token(tokens, pos).type = "RIGHT_PAREN" THEN Return(<<values, pos>>)
    ELSE Try(parse_value(tokens, pos), LAMBDA value :
         IF peek_token(tokens, value[2]).type = "COMMA"
         THEN value_list(tokens, value[2] + 1, Append(values, value[1]))
         ELSE Return(<<Append(values, value[1]), value[2]>>))

parse_create_table(tokens) ==
    Try(expect(tokens, 1, "CREATE", "Expected CREATE"), LAMBDA p1 :
    Try(expect(tokens, p1, "TABLE", "Expected TABLE"), LAMBDA p2 :
    IF peek_token(tokens, p2).type # "IDENTIFIER"
    THEN ParseError(<<"Expected table name">>)
    ELSE Try(expect(tokens, p2 + 1, "LEFT_PAREN", "Expected '('"), LAMBDA p3 :
         Try(column_definitions(tokens, p3, <<>>), LAMBDA columns :
         Try(expect(tokens, columns[2], "RIGHT_PAREN", "Expected ')'"), LAMBDA p4 :
         Return(CreateTableStatement(peek_token(tokens, p2).value, columns[1])))))))

parse_drop_table(tokens) ==
    Try(expect(tokens, 1, "DROP", "Expected DROP"), LAMBDA p1 :
    Try(expect(tokens, p1, "TABLE", "Expected TABLE"), LAMBDA p2 :
    IF peek_token(tokens, p2).type # "IDENTIFIER"
    THEN ParseError(<<"Expected table name">>)
    ELSE Return(DropTableStatement(peek_token(tokens, p2).value))))

parse_insert(tokens) ==
    Try(expect(tokens, 1, "INSERT", "Expected INSERT"), LAMBDA p1 :
    Try(expect(tokens, p1, "INTO", "Expected INTO"), LAMBDA p2 :
    IF peek_token(tokens, p2).type # "IDENTIFIER"
    THEN ParseError(<<"Expected table name">>)
    ELSE Try(expect(tokens, p2 + 1, "VALUES", "Expected VALUES"), LAMBDA p3 :
         Try(expect(tokens, p3, "LEFT_PAREN", "Expected '('"), LAMBDA p4 :
         Try(value_list(tokens, p4, <<>>), LAMBDA values :
         Try(expect(tokens, values[2], "RIGHT_PAREN", "Expected ')'"), LAMBDA p5 :
         Return(InsertStatement(peek_token(tokens, p2).value, values[1]))))))))

parse_select(tokens) ==
    Try(expect(tokens, 1, "SELECT", "Expected SELECT"), LAMBDA p1 :
    IF peek_token(tokens, p1).type # "ASTERISK"
    THEN ParseError(<<"Only SELECT * is currently supported">>)
    ELSE Try(expect(tokens, p1 + 1, "FROM", "Expected FROM"), LAMBDA p2 :
         IF peek_token(tokens, p2).type # "IDENTIFIER"
         THEN ParseError(<<"Expected table name">>)
         ELSE IF peek_token(tokens, p2 + 1).type # "WHERE"
         THEN Return(SelectStatement(peek_token(tokens, p2).value, NoCondition))
         ELSE Try(parse_where_clause(tokens, p2 + 2), LAMBDA where_condition :
              Return(SelectStatement(peek_token(tokens, p2).value,
                                     <<where_condition[1]>>)))))

\* the statement parse() returns when there is none
nullptr == [type |-> "nullptr"]

\* parse that takes every statement for a SELECT
parse_select_only(tokens) == parse_select(tokens)

parse(tokens) ==
    CASE peek_token(tokens, 1).type = "END_OF_FILE" -> Return(nullptr)
      [] peek_token(tokens, 1).type = "CREATE" -> parse_create_table(tokens)
      [] peek_token(tokens, 1).type = "DROP" -> parse_drop_table(tokens)
      [] peek_token(tokens, 1).type = "INSERT" -> parse_insert(tokens)
      [] peek_token(tokens, 1).type = "SELECT" -> parse_select(tokens)
      [] OTHER -> ParseError(<<"Expected SQL keyword">>)

\* ------------------------------------------------------------ shell

\* the input without one trailing semicolon
without_semicolon(input) ==
    IF input # <<>> /\ input[Len(input)] = ";" THEN SubSeq(input, 1, Len(input) - 1)
    ELSE input

\* the catch clauses of process_sql_command
Reported(r, Go(_)) ==
    IF r.ok THEN Go(r.v)
    ELSE Outcome(tables, metadata_file, table_files, FALSE,
                 <<IF r.parse THEN "Parse Error: " ELSE "Error: ">> \o r.v, <<>>, FALSE)

process_sql_command(input, order) ==
    Reported(tokenize(without_semicolon(input)), LAMBDA tokens :
    Reported(parse(tokens), LAMBDA statement :
    IF statement = nullptr
    THEN Outcome(tables, metadata_file, table_files, FALSE,
                 <<"Error: Failed to parse SQL statement">>, <<>>, FALSE)
    ELSE execute(statement, order)))

\* ------------------------------------------------------------ inputs

T == <<"t">>
U == <<"u">>
TableNames == {T, U}

COL_ID == Column(<<"i", "d">>, DT_INTEGER, 0, TRUE, FALSE)
COL_NAME == Column(<<"n", "a", "m", "e">>, DT_VARCHAR, 5, TRUE, TRUE)
COL_OK == Column(<<"o", "k">>, DT_BOOLEAN, 0, FALSE, TRUE)
COL_NAME0 == Column(<<"n", "a", "m", "e">>, DT_VARCHAR, 0, FALSE, FALSE)
COL_ANON == Column(<<>>, DT_INTEGER, 0, FALSE, FALSE)

\* the columns a CREATE TABLE is drawn from
ColumnPool == {COL_ID, COL_NAME, COL_OK, COL_NAME0, COL_ANON}

\* the sequences over S of length 0..n
SeqsUpTo(S, n) == UNION {[1..k -> S] : k \in 0..n}

ColumnLists == SeqsUpTo(ColumnPool, MaxCols)

\* the schemas of the tables that rows are stored in
StoreSchemas == {<<COL_NAME>>, <<COL_ID, COL_OK>>}

TEXT_EMPTY == <<>>
TEXT_HASH == <<"#", PIPE, BS, NL, CR>>
TEXT_ABC == <<"a", PIPE, "b", BS, "c">>
TEXT_LONG == <<"a", PIPE, "b", BS, "c", "d">>

\* the values an INSERT is drawn from
ValuePool ==
    {IntV(12), StrV(TEXT_EMPTY), StrV(TEXT_HASH), StrV(TEXT_ABC), StrV(TEXT_LONG),
     BoolV(TRUE), BoolV(FALSE)}

RowInputs == SeqsUpTo(ValuePool, MaxVals)

\* the WHERE conditions a SELECT is drawn from
Conditions ==
    {WhereCondition(<<"i", "d">>, "LESS_THAN", IntV(12)),
     WhereCondition(<<"i", "d">>, "GREATER_EQUAL", IntV(12)),
     WhereCondition(<<"i", "d">>, "EQUALS", StrV(TEXT_EMPTY)),
     WhereCondition(<<"o", "k">>, "EQUALS", BoolV(TRUE)),
     WhereCondition(<<"o", "k">>, "NOT_EQUALS", StrV(TEXT_ABC)),
     WhereCondition(<<"n", "a", "m", "e">>, "GREATER_THAN", StrV(TEXT_EMPTY)),
     WhereCondition(<<"n", "a", "m", "e">>, "EQUALS", IntV(12)),
     WhereCondition(<<"x">>, "EQUALS", IntV(12))}

\* the orders an unordered_map may iterate over the table names in
Orders == {<<T, U>>, <<U, T>>}

\* a statement that does not save the registry iterates over nothing
NoIteration == {<<>>}

\* the SQL texts a command is drawn from, as read_command returns them: ended by
\* a semicolon, or by a space when an empty line ended the command
SQL_CREATE ==
    <<"C", "R", "E", "A", "T", "E", " ", "T", "A", "B", "L", "E", " ", "t", " ",
      "(", "n", "a", "m", "e", " ", "V", "A", "R", "C", "H", "A", "R", "(", "5",
      ")", ")", ";">>
SQL_DROP ==
    <<"d", "r", "o", "p", " ", "t", "a", "b", "l", "e", " ", "t", ";">>
SQL_INSERT_INTO ==
    <<"I", "N", "S", "E", "R", "T", " ", "I", "N", "T", "O", " ", "t", " ", "V",
      "A", "L", "U", "E", "S", " ", "(">>
SQL_SELECT ==
    <<"S", "E", "L", "E", "C", "T", " ", "*", " ", "F", "R", "O", "M", " ", "t",
      ";">>
SQL_SELECT_WHERE ==
    <<"S", "E", "L", "E", "C", "T", " ", "*", " ", "F", "R", "O", "M", " ", "t",
      " ", "W", "H", "E", "R", "E", " ", "n", "a", "m", "e", " ", ">", "=", " ",
      QUOTE, "a", PIPE, "b", QUOTE, ";">>
SQL_SELECT_NAME ==
    <<"S", "E", "L", "E", "C", "T", " ", "n", "a", "m", "e", " ", "F", "R", "O",
      "M", " ", "t", " ">>
SQL_COMMENT ==
    <<"-", "-", " ", "t", " ">>
SQL_NOTHING ==
    <<";">>
LIT_ABC ==
    <<QUOTE, "a", PIPE, "b", BS, "c", QUOTE>>
LIT_ABC_ESCAPED ==
    <<QUOTE, "a", PIPE, "b", BS, BS, "c", QUOTE>>
LIT_EMPTY ==
    <<QUOTE, QUOTE>>
LIT_OPEN ==
    <<QUOTE, "a", ";">>

SQL_INSERT(literal) == SQL_INSERT_INTO \o literal \o <<")", ";">>

SqlTexts ==
    {SQL_CREATE, SQL_DROP, SQL_SELECT, SQL_SELECT_WHERE, SQL_SELECT_NAME, SQL_COMMENT,
     SQL_INSERT(LIT_ABC), SQL_INSERT(LIT_ABC_ESCAPED), SQL_INSERT(LIT_EMPTY),
     SQL_INSERT(LIT_OPEN), SQL_NOTHING}


\* ------------------------------------------------------------ inputs of the lexer

\* most characters of a text drawn character by character
MaxText == 3

\* the words SQL texts are made of
W_CREATE == <<"C", "R", "E", "A", "T", "E">>
W_TABLE == <<"T", "A", "B", "L", "E">>
W_DROP == <<"D", "R", "O", "P">>
W_INSERT == <<"I", "N", "S", "E", "R", "T">>
W_INTO == <<"I", "N", "T", "O">>
W_VALUES == <<"V", "A", "L", "U", "E", "S">>
W_SELECT == <<"S", "E", "L", "E", "C", "T">>
W_FROM == <<"F", "R", "O", "M">>
W_WHERE == <<"W", "H", "E", "R", "E">>
W_INTEGER == <<"I", "N", "T", "E", "G", "E", "R">>
W_VARCHAR == <<"V", "A", "R", "C", "H", "A", "R">>
W_T == <<"t">>
W_A == <<"a">>
W_B == <<"b">>
W_ONE == <<"1">>
W_FIVE == <<"5">>
W_LIT == <<QUOTE, "a", QUOTE>>
W_OPEN == <<"(">>
W_CLOSE == <<")">>
W_COMMA == <<",">>
W_STAR == <<"*">>
W_EQ == <<"=">>
W_UNKNOWN == <<"@">>
W_SEMI == <<";">>

\* the words joined by single spaces, from word i on
RECURSIVE spaced(_, _)
spaced(words, i) ==
    IF i > Len(words) THEN <<>>
    ELSE (IF i > 1 THEN <<" ">> ELSE <<>>) \o words[i] \o spaced(words, i + 1)

TextOf(words) == spaced(words, 1)

\* the words with `word` put in after the first k of them
WithWord(words, k, word) ==
    SubSeq(words, 1, k) \o <<word>> \o SubSeq(words, k + 1, Len(words))

WORDS_DROP == <<W_DROP, W_TABLE, W_T>>
WORDS_SELECT == <<W_SELECT, W_STAR, W_FROM, W_T>>
WORDS_SELECT_WHERE == <<W_SELECT, W_STAR, W_FROM, W_T, W_WHERE, W_A, W_EQ, W_ONE>>
WORDS_INSERT ==
    <<W_INSERT, W_INTO, W_T, W_VALUES, W_OPEN, W_ONE, W_COMMA, W_LIT, W_CLOSE>>
WORDS_CREATE ==
    <<W_CREATE, W_TABLE, W_T, W_OPEN, W_A, W_INTEGER, W_COMMA, W_B, W_VARCHAR,
      W_OPEN, W_FIVE, W_CLOSE, W_CLOSE>>
WORDS_INSERT_NONE == <<W_INSERT, W_INTO, W_T, W_VALUES, W_OPEN, W_CLOSE>>
WORDS_INSERT_COMMA ==
    <<W_INSERT, W_INTO, W_T, W_VALUES, W_OPEN, W_ONE, W_COMMA, W_CLOSE>>
WORDS_INSERT_COMMA_FIRST ==
    <<W_INSERT, W_INTO, W_T, W_VALUES, W_OPEN, W_COMMA, W_ONE, W_CLOSE>>
WORDS_INSERT_COMMAS ==
    <<W_INSERT, W_INTO, W_T, W_VALUES, W_OPEN, W_ONE, W_COMMA, W_COMMA, W_ONE,
      W_CLOSE>>
WORDS_INSERT_OPEN == <<W_INSERT, W_INTO, W_T, W_VALUES, W_OPEN, W_ONE>>
WORDS_CREATE_NONE == <<W_CREATE, W_TABLE, W_T, W_OPEN, W_CLOSE>>
WORDS_CREATE_COMMA ==
    <<W_CREATE, W_TABLE, W_T, W_OPEN, W_A, W_INTEGER, W_COMMA, W_CLOSE>>
WORDS_CREATE_NO_COMMA ==
    <<W_CREATE, W_TABLE, W_T, W_OPEN, W_A, W_INTEGER, W_B, W_INTEGER, W_CLOSE>>

\* the statements the grammar describes
Statements == {WORDS_DROP, WORDS_SELECT, WORDS_SELECT_WHERE, WORDS_INSERT, WORDS_CREATE}

\* CREATE TABLE and INSERT with lists of every shape
ListStatements ==
    {WORDS_INSERT, WORDS_CREATE, WORDS_INSERT_NONE, WORDS_INSERT_COMMA,
     WORDS_INSERT_COMMA_FIRST, WORDS_INSERT_COMMAS, WORDS_INSERT_OPEN,
     WORDS_CREATE_NONE, WORDS_CREATE_COMMA, WORDS_CREATE_NO_COMMA}

\* a statement with a character the lexer does not know at every place
UnknownStatements ==
    UNION {{WithWord(words, k, W_UNKNOWN) : k \in 0..Len(words)} :
              words \in {WORDS_DROP, WORDS_SELECT, WORDS_INSERT}}

\* a statement after a word of every kind
LeadingWords ==
    {W_TABLE, W_INTO, W_VALUES, W_FROM, W_T, W_ONE, W_LIT, W_OPEN, W_CLOSE, W_COMMA,
     W_STAR, W_EQ, W_UNKNOWN, W_SEMI}
LedStatements ==
    {WithWord(words, 0, word) : words \in {WORDS_DROP, WORDS_SELECT}, word \in LeadingWords}

StatementTexts ==
    {TextOf(words) : words \in Statements \cup ListStatements \cup UnknownStatements
                                \cup LedStatements}

\* every text of up to MaxText characters of the alphabet
Alphabet == {QUOTE, BS, "-", NL, " ", "a", "n", "=", "<", "@"}
SmallTexts == SeqsUpTo(Alphabet, MaxText)

\* a string literal: the opening quote and what follows it
LiteralTexts == {<<QUOTE>> \o body : body \in SeqsUpTo({QUOTE, BS, "n", "t", "a"}, MaxText)}

\* the character in lower case
tolower(c) ==
    IF \E i \in 1..26 : Upper[i] = c THEN Lower[CHOOSE i \in 1..26 : Upper[i] = c]
    ELSE c

\* every spelling of the word in upper and lower case letters
Casings(word) ==
    {[i \in 1..Len(word) |-> IF mask[i] THEN word[i] ELSE tolower(word[i])] :
        mask \in [1..Len(word) -> BOOLEAN]}

\* words that are no keyword in any spelling
W_SELECTS == <<"S", "E", "L", "E", "C", "T", "S">>
W_NUL == <<"N", "U", "L">>
W_KEY_ == <<"K", "E", "Y", "_">>
OtherWords == {W_SELECTS, W_NUL, W_KEY_, W_T}

WordTexts == UNION {Casings(word) : word \in DOMAIN keywords \cup OtherWords}

\* a comment between what comes before it and what comes after its line
CommentStart == <<"-", "-">>
BeforeComment == {<<>>, <<" ">>, <<"a">>, <<"a", " ">>, <<"a", NL>>}
CommentBodies == {<<>>, <<" ", "c">>, <<QUOTE>>, <<"-">>, <<"c", " ", "-", "-">>}
AfterComment ==
    {<<>>, <<NL>>, <<NL, "b">>, <<NL, "-", "-", "d", NL, "b">>,
     <<NL, " ", "-", "-", " ", "d", NL, "b">>, <<NL, "-", "-", NL, "-", "-">>}
CommentTexts ==
    {before \o CommentStart \o body \o after :
        before \in BeforeComment, body \in CommentBodies, after \in AfterComment}

\* the texts a Tokenizer is constructed on
LexerInputs ==
    SmallTexts \cup LiteralTexts \cup WordTexts \cup CommentTexts \cup StatementTexts

\* ------------------------------------------------------------ specification

\* the lines appended to a data file after its header line
RowLines(content) == IF content = NoFile THEN 0 ELSE Len(getlines(content)) - 1

\* the lines appended so far that are still on disk
StoredLines == RowLines(table_files[T]) + RowLines(table_files[U])

\* what is remembered of a call: the statement when it was carried out or was a
\* query, and what the call returned
Called(statement, out) ==
    [op |-> statement.type, name |-> statement.table_name,
     arg |-> IF out.ok \/ statement.type = "SELECT" THEN <<statement>> ELSE <<>>,
     ok |-> out.ok, res |-> out.res, rows |-> out.rows, scanned |-> out.scanned]

\* no Tokenizer is at work
NoTokenizer == [input |-> <<>>, current_pos |-> 0, tokens |-> <<>>, state |-> "none"]

\* a data directory that does not exist yet, and the executor constructed on it
Init ==
    /\ tables = EmptyRegistry
    /\ metadata_file = NoFile
    /\ table_files = [n \in TableNames |-> NoFile]
    /\ last = [op |-> "START", name |-> <<>>, arg |-> <<>>, ok |-> TRUE,
               res |-> <<>>, rows |-> <<>>, scanned |-> FALSE]
    /\ denied = {}
    /\ tokenizer = NoTokenizer

\* the call has returned `out`
Done(statement, out) ==
    /\ UNCHANGED <<denied, tokenizer>>
    /\ tables' = out.tables
    /\ metadata_file' = out.metadata_file
    /\ table_files' = out.table_files
    /\ last' = Called(statement, out)

\* QueryExecutor::execute(statement), the registry being iterated over in one of
\* `orders` when it is saved
Execute(statement, orders) ==
    \E order \in orders : Done(statement, execute(statement, order))

CreateTable(names, lists) ==
    \E n \in names, cols \in lists : Execute(CreateTableStatement(n, cols), Orders)

DropTable == \E n \in TableNames : Execute(DropTableStatement(n), Orders)

Insert(rows) ==
    /\ StoredLines < MaxRows
    /\ \E n \in TableNames, vals \in rows : Execute(InsertStatement(n, vals), NoIteration)

Select(conds) ==
    \E n \in TableNames, cond \in conds : Execute(SelectStatement(n, cond), NoIteration)

\* the registry is loaded from what was saved
Loaded(saved, loaded) ==
    /\ metadata_file' = saved
    /\ tables' = IF loaded.ok THEN loaded.v ELSE EmptyRegistry
    /\ last' = [op |-> "RESTART", name |-> <<>>, arg |-> <<>>, ok |-> loaded.ok,
                res |-> <<>>, rows |-> <<>>, scanned |-> FALSE]
    /\ UNCHANGED <<table_files, denied, tokenizer>>

Saving(saved) == Loaded(saved, load_metadata(saved))

\* the process ends (~MetadataManager saves the registry) and is started again
\* on the same data directory (MetadataManager loads it)
Restart ==
    \E order \in Orders :
        Saving(IF DENY_SAVE \in denied THEN metadata_file
               ELSE save_metadata(tables, iteration(tables, order)))

\* the catalog under every CREATE TABLE of the column pool
CatalogNext ==
    \/ CreateTable(TableNames \cup {<<>>}, ColumnLists)
    \/ DropTable
    \/ Restart

SpecCatalog == Init /\ [][CatalogNext]_vars

\* the command line has returned `out`, within the bound on the lines appended
Processed(input, out) ==
    /\ RowLines(out.table_files[T]) + RowLines(out.table_files[U]) <= MaxRows
    /\ UNCHANGED <<denied, tokenizer>>
    /\ tables' = out.tables
    /\ metadata_file' = out.metadata_file
    /\ table_files' = out.table_files
    /\ last' = [op |-> "SQL", name |-> <<>>, arg |-> <<input>>, ok |-> out.ok,
                res |-> out.res, rows |-> out.rows, scanned |-> out.scanned]

\* SQLShell::process_sql_command(input)
ProcessSqlCommand(inputs) ==
    \E input \in inputs, order \in Orders :
        Processed(input, process_sql_command(input, order))

\* the shell under the SQL texts
ShellNext == ProcessSqlCommand(SqlTexts)

SpecShell == Init /\ [][ShellNext]_vars

\* the row store under every INSERT of the value pool
Next ==
    \/ CreateTable(TableNames, StoreSchemas)
    \/ DropTable
    \/ Insert(RowInputs)
    \/ Select({<<condition>> : condition \in Conditions} \cup {NoCondition})
    \/ Restart

Spec == Init /\ [][Next]_vars

\* the sets of file operations refused at a time: none, or one of them
FaultSets ==
    {{}, {DENY_SAVE}, {DENY_READ}, {DENY_CREATE}, {DENY_APPEND}, {DENY_REMOVE}}

\* the rows and the conditions of the statements run while files fail
FaultRows ==
    {<<StrV(TEXT_ABC)>>, <<StrV(TEXT_LONG)>>, <<IntV(12), BoolV(TRUE)>>, <<IntV(12)>>}
FaultConditions ==
    {NoCondition,
     <<WhereCondition(<<"i", "d">>, "GREATER_EQUAL", IntV(12))>>,
     <<WhereCondition(<<"o", "k">>, "NOT_EQUALS", StrV(TEXT_ABC))>>}

\* the system starts or stops refusing file operations (a directory made
\* read-only, a file whose permissions change, a disk that fills)
Fault(sets) ==
    /\ \E d \in sets : denied' = d /\ d # denied
    /\ last' = [op |-> "FAULT", name |-> <<>>, arg |-> <<>>, ok |-> TRUE,
                res |-> <<>>, rows |-> <<>>, scanned |-> FALSE]
    /\ UNCHANGED <<tables, metadata_file, table_files, tokenizer>>

\* the executor on a data directory whose files may fail
FaultNext ==
    \/ CreateTable({T}, StoreSchemas)
    \/ DropTable
    \/ Insert(FaultRows)
    \/ Select(FaultConditions)
    \/ Restart
    \/ Fault(FaultSets)

SpecFaults == Init /\ [][FaultNext]_vars

\* the lines a data file may hold that insert_row did not write
LinePool ==
    {<<"1", "2", PIPE, "1">>, <<"1", "2", PIPE, "x">>, <<"x", PIPE, "1">>,
     <<"1", "2", "x", PIPE, "0">>, <<" ", "7", PIPE, "1">>, <<"a", "b", "c">>,
     <<"1", "2">>, <<"1", "2", PIPE, "1", PIPE, "0">>, <<"#", "c">>, <<>>}

\* the data file of a table is given a line by something else than insert_row
\* (an editor, another program, an earlier schema of the table)
Write(names, lines) ==
    /\ StoredLines < MaxRows
    /\ \E n \in names, line \in lines :
           /\ table_files[n] # NoFile
           /\ table_files' = [table_files EXCEPT ![n] = @ \o line \o <<NL>>]
           /\ last' = [op |-> "WRITE", name |-> n, arg |-> <<line>>, ok |-> TRUE,
                       res |-> <<>>, rows |-> <<>>, scanned |-> FALSE]
    /\ UNCHANGED <<tables, metadata_file, denied, tokenizer>>

\* file << row_data << "\n" cut short: the first k characters of the row are on
\* disk, without the newline
torn(content, row_data, k) == content \o SubSeq(row_data, 1, k)

\* the process dies in insert_row(values) on table n while the line is written,
\* and is started again: the registry is loaded from the metadata file
Crashed(n, values, content, registry) ==
    /\ tables' = IF registry.ok THEN registry.v ELSE EmptyRegistry
    /\ table_files' = [table_files EXCEPT ![n] = content]
    /\ last' = [op |-> "CRASH", name |-> n, arg |-> <<InsertStatement(n, values)>>,
                ok |-> FALSE, res |-> <<>>, rows |-> <<>>, scanned |-> FALSE]
    /\ UNCHANGED <<metadata_file, denied, tokenizer>>

\* the data file of n ends with a line that has no newline
TornLine(n) ==
    /\ table_files[n] # NoFile
    /\ table_files[n] # <<>>
    /\ table_files[n][Len(table_files[n])] # NL

\* one line of a file is torn at a time, which bounds the length of a line
Crash(names, rows) ==
    /\ StoredLines < MaxRows
    /\ \E n \in names, values \in rows :
           /\ ~TornLine(n)
           /\ execute_insert(InsertStatement(n, values)).ok
           /\ \E k \in 0..Len(serialize_row(n, values).v) :
                  Crashed(n, values,
                          torn(ensure_table_file(n, table_files[n]).v,
                               serialize_row(n, values).v, k),
                          load_metadata(metadata_file))

\* the row store on data files that hold foreign and torn lines
FilesNext ==
    \/ CreateTable({T}, StoreSchemas)
    \/ DropTable
    \/ Insert(FaultRows)
    \/ Select({NoCondition})
    \/ Write({T}, LinePool)
    \/ Crash({T}, FaultRows)

SpecFiles == Init /\ [][FilesNext]_vars

\* the executor on a data directory whose files cannot be removed at times
RemoveNext ==
    \/ CreateTable({T}, StoreSchemas)
    \/ DropTable
    \/ Insert(FaultRows)
    \/ Select({NoCondition})
    \/ Fault({{}, {DENY_REMOVE}})

SpecRemove == Init /\ [][RemoveNext]_vars

\* the integer literals of the SQL texts: below, at and above INT_MAX, with and
\* without leading zeros
NUM_0 == <<"0">>
NUM_007 == <<"0", "0", "7">>
NUM_INT_MAX == <<"2", "1", "4", "7", "4", "8", "3", "6", "4", "7">>
NUM_2_31 == <<"2", "1", "4", "7", "4", "8", "3", "6", "4", "8">>
NUM_2_32_12 == <<"4", "2", "9", "4", "9", "6", "7", "3", "0", "8">>
NUM_20_NINES == [k \in 1..20 |-> "9"]

NumberLiterals ==
    {NUM_0, NUM_007, NUM_INT_MAX, NUM_2_31, NUM_2_32_12, NUM_20_NINES}

W_ID == <<"i", "d">>
W_U == <<"u">>

SQL_CREATE_T_ID ==
    TextOf(<<W_CREATE, W_TABLE, W_T, W_OPEN, W_ID, W_INTEGER, W_CLOSE, W_SEMI>>)
SQL_DROP_U == TextOf(<<W_DROP, W_TABLE, W_U, W_SEMI>>)
InsertNumber(literal) ==
    TextOf(<<W_INSERT, W_INTO, W_T, W_VALUES, W_OPEN, literal, W_CLOSE, W_SEMI>>)
SelectNumber(literal) ==
    TextOf(<<W_SELECT, W_STAR, W_FROM, W_T, W_WHERE, W_ID, W_EQ, literal, W_SEMI>>)
CreateVarchar(literal) ==
    TextOf(<<W_CREATE, W_TABLE, W_U, W_OPEN, W_A, W_VARCHAR, W_OPEN, literal, W_CLOSE,
             W_CLOSE, W_SEMI>>)

NumberTexts ==
    {SQL_CREATE_T_ID, SQL_DROP_U}
    \cup {InsertNumber(literal) : literal \in NumberLiterals}
    \cup {SelectNumber(literal) : literal \in NumberLiterals}
    \cup {CreateVarchar(literal) : literal \in NumberLiterals}

\* the shell under SQL texts with integer literals
NumberNext == ProcessSqlCommand(NumberTexts)

SpecNumbers == Init /\ [][NumberNext]_vars

\* the values and the operators compare_values is called with
ComparedValues ==
    {IntV(0), IntV(5), IntV(12), StrV(<<>>), StrV(<<"a">>), StrV(<<"a", "b">>),
     StrV(<<"B">>), BoolV(FALSE), BoolV(TRUE)}

Operators ==
    {"EQUALS", "NOT_EQUALS", "LESS_THAN", "GREATER_THAN", "LESS_EQUAL", "GREATER_EQUAL"}

\* compare_values(left, right, op) is called and returns
Compare(values, operators) ==
    /\ \E left \in values, right \in values, op \in operators :
           last' = [op |-> "COMPARE", name |-> <<>>, arg |-> <<left, right, op>>,
                    ok |-> TRUE, res |-> <<compare_values(left, right, op)>>,
                    rows |-> <<>>, scanned |-> FALSE]
    /\ UNCHANGED <<tables, metadata_file, table_files, denied, tokenizer>>

CompareNext == Compare(ComparedValues, Operators)

SpecCompare == Init /\ [][CompareNext]_vars

\* the rows, the conditions and the SQL texts of the queries with a WHERE clause
WhereRows ==
    {<<StrV(<<"a">>)>>, <<StrV(<<"a", "b">>)>>, <<StrV(<<"B">>)>>,
     <<IntV(5), BoolV(FALSE)>>, <<IntV(12), BoolV(TRUE)>>, <<IntV(12), BoolV(FALSE)>>}

WhereConditions ==
    {<<WhereCondition(column_name, op, value)>> :
        column_name \in {<<"n", "a", "m", "e">>, <<"i", "d">>, <<"o", "k">>},
        op \in Operators,
        value \in {StrV(<<"a">>), StrV(<<"a", "b">>), IntV(12), BoolV(TRUE),
                   BoolV(FALSE)}}
    \cup {NoCondition}

SQL_SELECT_FROM_T_WHERE_ID ==
    <<"S", "E", "L", "E", "C", "T", " ", "*", " ", "F", "R", "O", "M", " ", "t",
      " ", "W", "H", "E", "R", "E", " ", "i", "d", " ">>
SQL_WHERE_ID_NE == SQL_SELECT_FROM_T_WHERE_ID \o <<"!", "=", " ", "1", "2", ";">>
SQL_WHERE_ID_LG == SQL_SELECT_FROM_T_WHERE_ID \o <<"<", ">", " ", "1", "2", ";">>

\* the row store under queries with a WHERE clause
WhereNext ==
    \/ CreateTable({T}, StoreSchemas)
    \/ Insert(WhereRows)
    \/ Select(WhereConditions)
    \/ ProcessSqlCommand({SQL_WHERE_ID_NE, SQL_WHERE_ID_LG})

SpecWhere == Init /\ [][WhereNext]_vars

\* Tokenizer(input): current_pos is 0 and tokenize() is about to run its loop
Tokenizer(input) ==
    [input |-> input, current_pos |-> 0, tokens |-> <<>>, state |-> "tokenize"]

\* a Tokenizer constructed on a text, on an empty data directory
InitLexer(inputs) ==
    /\ tables = EmptyRegistry
    /\ metadata_file = NoFile
    /\ table_files = [n \in TableNames |-> NoFile]
    /\ last = [op |-> "START", name |-> <<>>, arg |-> <<>>, ok |-> TRUE,
               res |-> <<>>, rows |-> <<>>, scanned |-> FALSE]
    /\ denied = {}
    /\ \E input \in inputs : tokenizer = Tokenizer(input)

\* the Tokenizer once next_token() has returned or thrown r: the token is pushed
\* and the loop ends after the end-of-file token; an exception ends tokenize
pushed_token(r) ==
    IF ~r.ok
    THEN [tokenizer EXCEPT !.current_pos = Len(tokenizer.input), !.state = "thrown"]
    ELSE [tokenizer EXCEPT
             !.current_pos = r.v[2] - 1,
             !.tokens = Append(@, r.v[1]),
             !.state = IF r.v[1].type = "END_OF_FILE" THEN "returned" ELSE "tokenize"]

\* one turn of the loop of tokenize()
NextToken ==
    /\ tokenizer.state = "tokenize"
    /\ tokenizer' = pushed_token(next_token(tokenizer.input, tokenizer.current_pos + 1))
    /\ UNCHANGED <<tables, metadata_file, table_files, last, denied>>

\* what process_sql_command knows once Parser(tokens).parse() has returned or
\* thrown r
Parsed(r) ==
    /\ last' = [op |-> "PARSE", name |-> <<>>,
                arg |-> IF r.ok THEN <<r.v>> ELSE <<>>, ok |-> r.ok,
                res |-> IF r.ok THEN <<>>
                        ELSE <<IF r.parse THEN "Parse Error: " ELSE "Error: ">> \o r.v,
                rows |-> <<>>, scanned |-> FALSE]
    /\ tokenizer' = [tokenizer EXCEPT !.state = "parsed"]
    /\ UNCHANGED <<tables, metadata_file, table_files, denied>>

\* the tokens tokenize() returned are parsed
Parse ==
    /\ tokenizer.state = "returned"
    /\ Parsed(parse(tokenizer.tokens))

LexerNext == NextToken \/ Parse

SpecLexer == InitLexer(LexerInputs) /\ [][LexerNext]_vars

\* the loop of tokenize() is run until it breaks or next_token() throws
SpecLexerLive ==
    InitLexer(SmallTexts \cup LiteralTexts) /\ [][LexerNext]_vars /\ WF_vars(NextToken)

\* ------------------------------------------------------------ properties

\* the rows select_all returns to a TableStorage constructed on table n
Rows(n) == select_all(n, ensure_table_file(n, table_files[n]).v).v

\* the value at position i has the variant the column at position i declares
SameVariant(column, value) ==
    \/ column.type = DT_INTEGER /\ holds_int(value)
    \/ column.type = DT_VARCHAR /\ holds_string(value)
    \/ column.type = DT_BOOLEAN /\ holds_bool(value)

\* the row is valid for the columns: one value per column, of the column's
\* variant, a text no longer than the VARCHAR length
ValidRow(columns, row) ==
    /\ Len(row) = Len(columns)
    /\ \A i \in 1..Len(row) :
           /\ SameVariant(columns[i], row[i])
           /\ columns[i].type = DT_VARCHAR => Len(row[i][2]) <= columns[i].varchar_length

\* C1 as stated: for every registered schema and every row valid for it,
\* deserialize_row(serialize_row(row)) is the row.
C1_RoundTrip ==
    \A n \in DOMAIN tables, row \in RowInputs :
        ValidRow(tables[n], row)
        => /\ serialize_row(n, row).ok
           /\ deserialize_row(n, serialize_row(n, row).v).ok
           /\ deserialize_row(n, serialize_row(n, row).v).v = row

\* C2 as stated: when an INSERT succeeds on a table, select_all then returns the
\* rows it returned before the insert followed by the inserted values.
C2_InsertAppends ==
    [][\A n \in TableNames :
           (last'.op = "INSERT" /\ last'.ok /\ last'.name = n)
           => Rows(n)' = Append(Rows(n), last'.arg[1].values)]_vars

\* the rows SELECT * FROM t returns to the shell in this state
SelectedRows == process_sql_command(SQL_SELECT, <<T, U>>).rows

\* the last command was the INSERT of the literal and succeeded
Inserted(literal) == last.op = "SQL" /\ last.ok /\ last.arg = <<SQL_INSERT(literal)>>

\* C3, amended: after INSERT INTO t VALUES ('a|b\c') the row SELECT returns last
\* holds a|bc, the backslash of the unknown escape \c being dropped by the lexer;
\* written 'a|b\\c', the literal is returned as a|b\c.
C3_LiteralUnescapedOnce ==
    /\ Inserted(LIT_ABC)
       => /\ SelectedRows # <<>>
          /\ SelectedRows[Len(SelectedRows)] = <<StrV(<<"a", PIPE, "b", "c">>)>>
    /\ Inserted(LIT_ABC_ESCAPED)
       => /\ SelectedRows # <<>>
          /\ SelectedRows[Len(SelectedRows)] = <<StrV(<<"a", PIPE, "b", BS, "c">>)>>

\* the literal 'a|b\c' was inserted and a SELECT returns its row
C3_Witness == Inserted(LIT_ABC) /\ Len(SelectedRows) = 2

\* C3 as stated: after INSERT INTO t VALUES ('a|b\c') the row SELECT returns
\* last holds a|b\c.
C3_LiteralReturnedIdentical ==
    Inserted(LIT_ABC)
    => /\ SelectedRows # <<>>
       /\ SelectedRows[Len(SelectedRows)] = <<StrV(<<"a", PIPE, "b", BS, "c">>)>>

\* one of the conditions under which createTable is said to fail
Refused(table_name, columns) ==
    \/ table_exists(table_name)
    \/ table_name = <<>>
    \/ columns = <<>>
    \/ \E i \in 1..Len(columns) : columns[i].name = <<>>
    \/ \E i, j \in 1..Len(columns) : i # j /\ columns[i].name = columns[j].name
    \/ Cardinality({i \in 1..Len(columns) : columns[i].is_primary_key}) > 1
    \/ \E i \in 1..Len(columns) :
           columns[i].type = DT_VARCHAR /\ columns[i].varchar_length <= 0

\* the registry after CREATE TABLE table_name (columns) holds the table with
\* these columns exactly when the call succeeded
Created(table_name, columns, out) ==
    /\ out.ok <=> ~Refused(table_name, columns)
    /\ out.ok => /\ table_name \in DOMAIN out.tables
                 /\ out.tables[table_name] = columns
    /\ ~out.ok => out.tables = tables

\* C4: in every state, for every name and column list, create_table fails
\* exactly when the table exists, the name is empty, the list is empty, a column
\* name is empty or repeated, two columns are primary keys or a VARCHAR length is
\* not positive; otherwise the table is registered with these columns in order,
\* as it is after a CREATE TABLE that was carried out.
C4_CreateTableFailsExactlyWhen ==
    /\ \A n \in TableNames \cup {<<>>}, columns \in ColumnLists, order \in Orders :
           Created(n, columns,
                   execute_create_table(CreateTableStatement(n, columns), order))
    /\ (last.op = "CREATE_TABLE" /\ last.ok)
       => /\ table_exists(last.name)
          /\ get_columns(last.name) = last.arg[1].columns

\* a CREATE TABLE of two columns was carried out beside another table
C4_Witness ==
    /\ last.op = "CREATE_TABLE" /\ last.ok
    /\ Len(get_columns(last.name)) = 2
    /\ DOMAIN tables = TableNames

\* C5: every registered schema has a column, distinct column names, at most
\* one primary key, and a positive length for every VARCHAR column.
C5_SchemaInvariant ==
    \A n \in DOMAIN tables :
        /\ Len(tables[n]) >= 1
        /\ \A i, j \in 1..Len(tables[n]) :
               i # j => tables[n][i].name # tables[n][j].name
        /\ Cardinality({i \in 1..Len(tables[n]) : tables[n][i].is_primary_key}) <= 1
        /\ \A i \in 1..Len(tables[n]) :
               tables[n][i].type = DT_VARCHAR => tables[n][i].varchar_length > 0

\* a CREATE TABLE was refused with two tables registered
C5_Witness ==
    /\ last.op = "CREATE_TABLE" /\ ~last.ok
    /\ DOMAIN tables = TableNames
    /\ \E n \in TableNames : Len(tables[n]) = 2

\* C6: for a registered table, validate_insert_values fails exactly when the
\* number of values is not the number of columns, a value is not of its column's
\* variant, or a text is longer than its VARCHAR column allows; an INSERT that
\* was carried out has passed it.
C6_ValidateInsertFailsExactlyWhen ==
    /\ \A n \in DOMAIN tables, values \in RowInputs :
           validate_insert_values(n, values).ok <=> ValidRow(tables[n], values)
    /\ (last.op = "INSERT" /\ last.ok)
       => ValidRow(tables[last.name], last.arg[1].values)

\* an INSERT was refused for a text longer than the column allows
C6_Witness ==
    /\ last.op = "INSERT" /\ ~last.ok
    /\ last.res[2] = "String too long for column '"

\* the condition names no column of the table, or its literal is not of the
\* variant of the column it names
Invalid(n, condition) ==
    \/ \A i \in 1..Len(tables[n]) : tables[n][i].name # condition.column_name
    \/ \E i \in 1..Len(tables[n]) :
           /\ tables[n][i].name = condition.column_name
           /\ ~SameVariant(tables[n][i], condition.value)

\* C7: a SELECT with a WHERE on a registered table whose condition names no
\* column or compares a column with a literal of another variant fails with the
\* validation error, select_all is not called and no row is returned.
C7_InvalidWhereFailsBeforeScan ==
    /\ (/\ last.op = "SELECT"
        /\ table_exists(last.name)
        /\ last.arg[1].where_condition # NoCondition
        /\ Invalid(last.name, last.arg[1].where_condition[1]))
       => /\ ~last.ok
          /\ ~last.scanned
          /\ last.rows = <<>>
          /\ last.res[2] \in {"Column '", "Type mismatch for column '"}
    /\ \A n \in DOMAIN tables, condition \in Conditions :
           Invalid(n, condition)
           => /\ ~select_where(n, table_files[n], condition).ok
              /\ ~select_where(n, table_files[n], condition).scanned

\* a BOOLEAN column of a table with a row was compared with a string literal
C7_Witness ==
    /\ last.op = "SELECT" /\ ~last.ok /\ ~last.scanned
    /\ table_exists(last.name)
    /\ Len(tables[last.name]) = 2
    /\ RowLines(table_files[last.name]) > 0
    /\ last.arg[1].where_condition =
           <<WhereCondition(<<"o", "k">>, "NOT_EQUALS", StrV(TEXT_ABC))>>

\* what the executor returns for a table that is not registered
NoTable(n) == <<"Error: ", "Table '", n, "' does not exist">>

\* every SELECT, INSERT and DROP on n returns the error, and changes no table
Absent(n) ==
    /\ \A order \in Orders :
           execute(DropTableStatement(n), order).res = NoTable(n)
    /\ \A values \in RowInputs :
           execute(InsertStatement(n, values), <<>>).res = NoTable(n)
    /\ \A condition \in {<<c>> : c \in Conditions} \cup {NoCondition} :
           execute(SelectStatement(n, condition), <<>>).res = NoTable(n)

\* C8: DROP TABLE fails on a table that is not registered; after it succeeds the
\* table is not registered, and as long as a table is not registered every
\* SELECT, INSERT and DROP on it returns "Table '<name>' does not exist"; only a
\* CREATE TABLE that succeeds registers it again.  The drop leaves the schemas and
\* the data files of the other tables as they were.
C8_DroppedTableIsGone ==
    /\ [](/\ (last.op = "DROP_TABLE" /\ last.ok) => ~table_exists(last.name)
          /\ (last.op = "DROP_TABLE" /\ ~last.ok) => last.res = NoTable(last.name)
          /\ \A n \in TableNames : ~table_exists(n) => Absent(n))
    /\ [][\A n \in TableNames :
              /\ (~table_exists(n) /\ table_exists(n)')
                 => (last'.op = "CREATE_TABLE" /\ last'.ok /\ last'.name = n)
              /\ (last'.op = "DROP_TABLE" /\ last'.ok /\ last'.name # n)
                 => /\ table_exists(n)' = table_exists(n)
                    /\ table_exists(n) => get_columns(n)' = get_columns(n)
                    /\ table_files'[n] = table_files[n]]_vars

\* a table was dropped while the other one holds a row
C8_Witness ==
    /\ last.op = "DROP_TABLE" /\ last.ok
    /\ \E n \in TableNames :
           n # last.name /\ table_exists(n) /\ RowLines(table_files[n]) > 0

\* C9: after every CREATE TABLE or DROP TABLE that succeeded, the metadata file
\* is what save_metadata writes of the registry, and the tables and ordered
\* columns it records are those of the registry.
C9_MetadataFileIsRegistry ==
    (last.op \in {"CREATE_TABLE", "DROP_TABLE"} /\ last.ok)
    => /\ \E order \in Orders :
              metadata_file = save_metadata(tables, iteration(tables, order))
       /\ load_metadata(metadata_file).ok
       /\ load_metadata(metadata_file).v = tables

\* a table was dropped and the other one is still registered
C9_Witness ==
    /\ last.op = "DROP_TABLE" /\ last.ok
    /\ \E n \in TableNames : table_exists(n) /\ Len(tables[n]) = 2

\* the registry loaded from what save_metadata writes of tabs
Reloaded(tabs, order) == load_metadata(save_metadata(tabs, iteration(tabs, order)))

\* C10: for every reachable registry, loading what save_metadata writes yields
\* the same tables with the same ordered columns (name, type, VARCHAR length,
\* primary key, not null), and saving what was loaded writes the same file.
C10_MetadataRoundTrip ==
    \A order \in Orders :
        /\ Reloaded(tables, order).ok
        /\ Reloaded(tables, order).v = tables
        /\ save_metadata(Reloaded(tables, order).v, iteration(tables, order))
               = save_metadata(tables, iteration(tables, order))

\* the process was started again on two tables, one with a VARCHAR primary key
C10_Witness ==
    /\ last.op = "RESTART"
    /\ DOMAIN tables = TableNames
    /\ \E n \in TableNames :
           /\ Len(tables[n]) = 2
           /\ tables[n][1].type = DT_VARCHAR
           /\ tables[n][1].is_primary_key
           /\ tables[n][2].is_not_null

\* the data file of n cannot be made ready by the TableStorage constructor
NoDataFile(n) ==
    (table_files[n] = NoFile \/ DENY_READ \in denied) /\ DENY_CREATE \in denied

\* the failures the Catalog and the Row Store raise for a statement: duplicate
\* table, table missing, arity or type mismatch, WHERE validation, file error
CreateFails(n) == table_exists(n) \/ DENY_SAVE \in denied
DropFails(n) == ~table_exists(n) \/ DENY_SAVE \in denied
InsertFails(n, values) ==
    \/ ~table_exists(n)
    \/ NoDataFile(n)
    \/ ~ValidRow(tables[n], values)
    \/ DENY_APPEND \in denied
SelectFails(n, condition) ==
    \/ ~table_exists(n)
    \/ NoDataFile(n)
    \/ condition # NoCondition /\ Invalid(n, condition[1])
    \/ DENY_READ \in denied

\* what execute returned is an error text exactly when the statement fails,
\* and the confirmation otherwise
Rendered(out, fails, confirmation) ==
    /\ out.ok <=> ~fails
    /\ ~out.ok => out.res[1] = "Error: "
    /\ out.ok => out.res = confirmation

\* C11: in every state, with or without a file operation refused, execute
\* returns a text for every statement: one that starts with "Error: " when the
\* table is missing or duplicate, the values or the WHERE condition do not fit
\* the schema, or a file cannot be opened; and the one-line confirmation when a
\* CREATE TABLE, DROP TABLE or INSERT is carried out.
C11_ExecuteReturnsErrorText ==
    /\ \A n \in TableNames, columns \in StoreSchemas, order \in Orders :
           Rendered(execute(CreateTableStatement(n, columns), order), CreateFails(n),
                    <<"Table '", n, "' created successfully.">>)
    /\ \A n \in TableNames, order \in Orders :
           Rendered(execute(DropTableStatement(n), order), DropFails(n),
                    <<"Table '", n, "' dropped successfully.">>)
    /\ \A n \in TableNames, values \in RowInputs :
           Rendered(execute(InsertStatement(n, values), <<>>), InsertFails(n, values),
                    <<"1 row inserted into '", n, "'.">>)
    /\ \A n \in TableNames, condition \in FaultConditions :
           /\ execute(SelectStatement(n, condition), <<>>).ok
              <=> ~SelectFails(n, condition)
           /\ ~execute(SelectStatement(n, condition), <<>>).ok
              => execute(SelectStatement(n, condition), <<>>).res[1] = "Error: "
    /\ (last.op \in {"CREATE_TABLE", "DROP_TABLE", "INSERT", "SELECT"} /\ ~last.ok)
       => last.res[1] = "Error: "

\* an INSERT of a valid row was refused because the data file could not be
\* opened for appending
C11_Witness ==
    /\ last.op = "INSERT" /\ ~last.ok
    /\ last.res[2] = "Cannot open table file for writing: "
    /\ table_exists(last.name)

\* tokenize() has returned
Finished == tokenizer.state \in {"returned", "parsed"}

\* C12: tokenize ends for every input: every turn of its loop moves current_pos
\* forward, or pushes the end-of-file token, or throws; it throws only on a text
\* with a quote; and the tokens it returns end with the end-of-file token, the
\* only one of them.
C12_TokenizeTerminates ==
    /\ [](Finished
          => /\ tokenizer.tokens # <<>>
             /\ tokenizer.tokens[Len(tokenizer.tokens)].type = "END_OF_FILE"
             /\ \A k \in 1..(Len(tokenizer.tokens) - 1) :
                    tokenizer.tokens[k].type # "END_OF_FILE")
    /\ [](tokenizer.state = "thrown"
          => \E k \in 1..Len(tokenizer.input) : tokenizer.input[k] = QUOTE)
    /\ [][tokenizer.state = "tokenize"
          => \/ tokenizer'.current_pos > tokenizer.current_pos
             \/ tokenizer'.state \in {"returned", "thrown"}]_tokenizer
    /\ <>(tokenizer.state # "tokenize")

\* tokenize has returned a string literal, a word and the end-of-file token
C12_Witness ==
    /\ tokenizer.state = "returned"
    /\ Len(tokenizer.tokens) = 3
    /\ tokenizer.tokens[1].type = "STRING_LITERAL"

\* C13 as stated: for a text with a comment, from -- to the end of its line,
\* tokenize returns the tokens it returns for the text without the comment.
C13_CommentsAreSkipped ==
    \A before \in BeforeComment, body \in CommentBodies, after \in AfterComment :
        tokenizer.input = before \o CommentStart \o body \o after
        => /\ tokenizer.state # "thrown"
           /\ Finished => tokenizer.tokens = tokenize(before \o after).v

\* the text with every lower case letter in upper case
InUpperCase(text) ==
    [k \in 1..Len(text) |->
        IF \E i \in 1..26 : Lower[i] = text[k]
        THEN Upper[CHOOSE i \in 1..26 : Lower[i] = text[k]]
        ELSE text[k]]

\* a text of letters and underscores
IsWord(text) ==
    /\ text # <<>>
    /\ \A k \in 1..Len(text) :
           \E i \in 1..26 : text[k] \in {Lower[i], Upper[i], "_"}

\* C14: there are 18 keywords; a word that is a keyword in upper case is lexed,
\* in every spelling, as the token of that keyword with the upper case text,
\* and every other word as an identifier with the text as written.
C14_KeywordsIgnoreCase ==
    /\ Cardinality(DOMAIN keywords) = 18
    /\ (Finished /\ IsWord(tokenizer.input))
       => tokenizer.tokens =
              <<IF InUpperCase(tokenizer.input) \in DOMAIN keywords
                THEN Token(keywords[InUpperCase(tokenizer.input)],
                           InUpperCase(tokenizer.input))
                ELSE Token("IDENTIFIER", tokenizer.input),
                Token("END_OF_FILE", <<>>)>>

\* SeLeCt was lexed
C14_Witness ==
    /\ Finished
    /\ tokenizer.input = <<"S", "e", "L", "e", "C", "t">>
    /\ tokenizer.tokens[1].type = "SELECT"

\* the position of the first quote at or after i that no backslash escapes, or 0
RECURSIVE ClosingQuote(_, _)
ClosingQuote(text, i) ==
    IF i > Len(text) THEN 0
    ELSE IF text[i] = BS THEN ClosingQuote(text, i + 2)
    ELSE IF text[i] = QUOTE THEN i
    ELSE ClosingQuote(text, i + 1)

\* the characters of text from i to end - 1 with the escapes decoded
RECURSIVE Decoded(_, _, _)
Decoded(text, i, end) ==
    IF i >= end THEN <<>>
    ELSE IF text[i] = BS
    THEN <<CASE text[i + 1] = "n" -> NL
             [] text[i + 1] = "t" -> TAB
             [] text[i + 1] = "r" -> CR
             [] OTHER -> text[i + 1]>> \o Decoded(text, i + 2, end)
    ELSE <<text[i]>> \o Decoded(text, i + 1, end)

HasUnknown == \E k \in 1..Len(tokenizer.tokens) : tokenizer.tokens[k].type = "UNKNOWN"

\* C16 as stated: a text with the character @ outside literals and comments is
\* tokenized without an error into tokens that hold an UNKNOWN token, and parse
\* throws a ParseError for every token sequence that holds an UNKNOWN token.
C16_UnknownIsParseError ==
    /\ (/\ \E k \in 1..Len(tokenizer.input) : tokenizer.input[k] = "@"
        /\ \A k \in 1..Len(tokenizer.input) : tokenizer.input[k] \notin {QUOTE, "-"})
       => /\ tokenizer.state # "thrown"
          /\ Finished => HasUnknown
    /\ (tokenizer.state = "parsed" /\ HasUnknown)
       => /\ ~last.ok
          /\ last.res[1] = "Parse Error: "

\* the token at k closes a list right after its opening or after a comma
ClosesEarly(k) ==
    /\ tokenizer.tokens[k].type \in {"LEFT_PAREN", "COMMA"}
    /\ tokenizer.tokens[k + 1].type = "RIGHT_PAREN"

\* C17 as stated: a CREATE TABLE or an INSERT is parsed only when its list has
\* an item after the opening parenthesis and after every comma.
C17_ListsHaveItems ==
    (/\ tokenizer.state = "parsed"
     /\ last.ok
     /\ last.arg[1].type \in {"CREATE_TABLE", "INSERT"})
    => \A k \in 1..(Len(tokenizer.tokens) - 1) : ~ClosesEarly(k)

\* the kind of the first token parse() is given
FirstToken == tokenizer.tokens[1].type

\* the statement type of the production a first token selects
Production ==
    [CREATE |-> "CREATE_TABLE", DROP |-> "DROP_TABLE", INSERT |-> "INSERT",
     SELECT |-> "SELECT"]

\* C18, amended: a parse that succeeds on tokens whose first is CREATE, DROP,
\* INSERT or SELECT returns a statement of the matching variant, and the
\* statements of the grammar are parsed; on a first token of another kind
\* parse throws the ParseError "Expected SQL keyword", except on the
\* end-of-file token, where it throws nothing and returns the null statement.
C18_DispatchOnFirstToken ==
    tokenizer.state = "parsed"
    => /\ (FirstToken \in DOMAIN Production /\ last.ok)
          => last.arg[1].type = Production[FirstToken]
       /\ (\E words \in Statements : tokenizer.input = TextOf(words)) => last.ok
       /\ FirstToken \notin DOMAIN Production \cup {"END_OF_FILE"}
          => /\ ~last.ok
             /\ last.res = <<"Parse Error: ", "Expected SQL keyword">>
       /\ FirstToken = "END_OF_FILE"
          => /\ last.ok
             /\ last.arg[1].type = "nullptr"

\* a text of white space or a comment only was parsed
C18_Witness ==
    /\ tokenizer.state = "parsed"
    /\ tokenizer.input # <<>>
    /\ FirstToken = "END_OF_FILE"
    /\ last.ok

\* C18 as stated: on a first token that is not CREATE, DROP, INSERT or SELECT,
\* the end-of-file token included, parse throws a ParseError.
C18_OtherFirstTokenIsParseError ==
    (tokenizer.state = "parsed" /\ FirstToken \notin DOMAIN Production)
    => /\ ~last.ok
       /\ last.res[1] = "Parse Error: "

\* the field is a literal of the column's type: decimal digits for an INTEGER,
\* 1 or 0 for a BOOLEAN, any text for a VARCHAR
WellFormed(column, field) ==
    CASE column.type = DT_INTEGER ->
            field # <<>> /\ \A k \in 1..Len(field) : IsDigit(field[k])
      [] column.type = DT_BOOLEAN -> field \in {<<"1">>, <<"0">>}
      [] OTHER -> TRUE

\* the line splits into one well-formed field for each column
LineIsRow(columns, line) ==
    /\ Len(fields(line)) = Len(columns)
    /\ \A i \in 1..Len(columns) : WellFormed(columns[i], fields(line)[i])

\* the row of a line that is one
RowOfLine(columns, line) ==
    [i \in 1..Len(columns) |->
        CASE columns[i].type = DT_INTEGER -> IntV(ReadDigits(fields(line)[i], 1, 0)[1])
          [] columns[i].type = DT_BOOLEAN -> BoolV(fields(line)[i] = <<"1">>)
          [] OTHER -> StrV(unescaped(fields(line)[i], 1))]

\* the rows of the lines from line i on that are rows, in file order
RECURSIVE ExpectedRows(_, _, _)
ExpectedRows(columns, lines, i) ==
    IF i > Len(lines) THEN <<>>
    ELSE (IF lines[i] # <<>> /\ lines[i][1] # "#" /\ LineIsRow(columns, lines[i])
          THEN <<RowOfLine(columns, lines[i])>> ELSE <<>>)
         \o ExpectedRows(columns, lines, i + 1)

\* C19 as stated: whatever the lines of the data file, SELECT * succeeds and
\* returns, in file order, the rows of the lines that are neither blank nor
\* comments and split into one well-formed literal for each column (digits for
\* an INTEGER, 1 or 0 for a BOOLEAN); any other line gives no row.
C19_ScanKeepsWellFormedLines ==
    (/\ last.op = "SELECT"
     /\ table_exists(last.name)
     /\ last.arg[1].where_condition = NoCondition)
    => /\ last.ok
       /\ last.rows = ExpectedRows(tables[last.name],
                                   getlines(table_files[last.name]), 1)

\* C20 as stated: a line cut short by a crash gives no row, and every INSERT
\* that is carried out after it adds its row, and only its row, at the end of
\* what select_all returns.
C20_TornLineIsAbsorbed ==
    [][\A n \in TableNames :
           /\ (last'.op = "CRASH" /\ last'.name = n) => Rows(n)' = Rows(n)
           /\ (TornLine(n) /\ last'.op = "INSERT" /\ last'.ok /\ last'.name = n)
              => Rows(n)' = Append(Rows(n), last'.arg[1].values)]_vars

RECURSIVE EscapedText(_)
EscapedText(s) ==
    IF s = <<>> THEN <<>>
    ELSE (IF Head(s) \in {PIPE, BS} THEN <<BS, Head(s)>>
          ELSE IF Head(s) = NL THEN <<BS, "n">>
          ELSE IF Head(s) = CR THEN <<BS, "r">>
          ELSE <<Head(s)>>) \o EscapedText(Tail(s))

\* text is n in decimal, without a sign and without leading zeros
IsDecimalOf(text, n) ==
    /\ text # <<>>
    /\ \A k \in 1..Len(text) : IsDigit(text[k])
    /\ Len(text) > 1 => text[1] # "0"
    /\ ReadDigits(text, 1, 0)[1] = n

IsStoredText(text, value) ==
    IF holds_int(value)
    THEN IF value[2] >= 0 THEN IsDecimalOf(text, value[2])
         ELSE text # <<>> /\ text[1] = "-" /\ IsDecimalOf(Tail(text), -value[2])
    ELSE IF holds_bool(value) THEN text = (IF value[2] THEN <<"1">> ELSE <<"0">>)
    ELSE text = EscapedText(value[2])

\* line is the stored texts of the values from value i on, with one | between
\* two of them
RECURSIVE IsLineOf(_, _, _)
IsLineOf(line, values, i) ==
    IF i > Len(values) THEN line = <<>>
    ELSE IF i = Len(values) THEN IsStoredText(line, values[i])
    ELSE \E k \in 1..Len(line) :
             /\ line[k] = PIPE
             /\ IsStoredText(SubSeq(line, 1, k - 1), values[i])
             /\ IsLineOf(SubSeq(line, k + 1, Len(line)), values, i + 1)

\* the | of the text from position i on that no backslash escapes
RECURSIVE UnescapedPipes(_, _)
UnescapedPipes(text, i) ==
    IF i > Len(text) THEN 0
    ELSE IF text[i] = BS THEN UnescapedPipes(text, i + 2)
    ELSE (IF text[i] = PIPE THEN 1 ELSE 0) + UnescapedPipes(text, i + 1)

\* the newline characters of a file
Newlines(content) ==
    IF content = NoFile THEN 0
    ELSE Cardinality({k \in 1..Len(content) : content[k] = NL})

\* the data file of n as an insert finds it: the header line when there is none
Found(n) == IF table_files[n] = NoFile THEN TXT_TABLE_HEADER \o n \o <<NL>> ELSE table_files[n]

\* what the file of n has after position `from`, without its last character
Appended(content, from) == SubSeq(content, from + 1, Len(content) - 1)

\* the insert of `values` has left the file `content` of a table of `columns`
\* columns, which was `old` before
OneLineAdded(old, content, values, columns) ==
    /\ Len(content) > Len(old)
    /\ content = old \o Appended(content, Len(old)) \o <<NL>>
    /\ IsLineOf(Appended(content, Len(old)), values, 1)
    /\ \A k \in 1..Len(Appended(content, Len(old))) :
           Appended(content, Len(old))[k] \notin {NL, CR}
    /\ UnescapedPipes(Appended(content, Len(old)), 1) = columns - 1
    /\ Newlines(content) = Newlines(old) + 1

\* C22: every INSERT that is carried out appends to the data file one line and
\* its newline; the line is the values in column order with one | between two of
\* them, an Integer in decimal, a Boolean as 1 or 0, a Text with |, \, newline
\* and carriage return escaped; it holds no raw newline or carriage return and
\* (column count - 1) unescaped |.
C22_InsertWritesOneLine ==
    [][(last'.op = "INSERT" /\ last'.ok)
       => OneLineAdded(Found(last'.name), table_files'[last'.name],
                       last'.arg[1].values, Len(tables[last'.name]))]_vars

C22_Witness ==
    /\ last.op = "INSERT"
    /\ last.ok
    /\ last.arg[1].values = <<StrV(TEXT_HASH)>>
    /\ Newlines(table_files[last.name]) = 2

\* Text a is before text b, character by character
TextBefore(a, b) ==
    \E k \in 1..(Len(b)) :
        /\ \A j \in 1..(k - 1) : j <= Len(a) /\ a[j] = b[j]
        /\ k > Len(a) \/ (k <= Len(a) /\ CharCode(a[k]) < CharCode(b[k]))

\* value v is before value w of the same variant: Integers by number, Texts
\* character by character, false before true
Before(v, w) ==
    IF holds_int(v) THEN v[2] < w[2]
    ELSE IF holds_bool(v) THEN ~v[2] /\ w[2]
    ELSE TextBefore(v[2], w[2])

\* v op w
Satisfies(v, op, w) ==
    CASE op = "EQUALS" -> v = w
      [] op = "NOT_EQUALS" -> v # w
      [] op = "LESS_THAN" -> Before(v, w)
      [] op = "GREATER_THAN" -> Before(w, v)
      [] op = "LESS_EQUAL" -> ~Before(w, v)
      [] op = "GREATER_EQUAL" -> ~Before(v, w)

\* the position of the column of that name in the schema of n
ColumnOf(n, column_name) ==
    CHOOSE i \in 1..Len(tables[n]) : tables[n][i].name = column_name

\* the condition passes validation on table n
Validated(n, condition) ==
    /\ table_exists(n)
    /\ \E i \in 1..Len(tables[n]) : tables[n][i].name = condition.column_name
    /\ SameVariant(tables[n][ColumnOf(n, condition.column_name)], condition.value)

\* the rows of select_all on n whose value in the condition's column satisfies it
Satisfying(n, condition) ==
    SelectSeq(Rows(n), LAMBDA row :
        Satisfies(row[ColumnOf(n, condition.column_name)], condition.operator_type,
                  condition.value))

ID_NOT_12 == WhereCondition(<<"i", "d">>, "NOT_EQUALS", IntV(12))

\* C23: a SELECT with a WHERE condition that passes validation returns the rows
\* of select_all, in their order, whose value in the condition's column
\* satisfies the operator against the literal (Integers by number, Texts
\* character by character, false before true); != and <> both mean not equal.
C23_WhereFiltersSelectAll ==
    /\ (/\ last.op = "SELECT"
        /\ last.arg[1].where_condition # NoCondition
        /\ Validated(last.name, last.arg[1].where_condition[1]))
       => /\ last.ok
          /\ last.rows = Satisfying(last.name, last.arg[1].where_condition[1])
    /\ (last.op = "SQL" /\ Validated(T, ID_NOT_12))
       => /\ last.ok
          /\ last.rows = Satisfying(T, ID_NOT_12)

C23_Witness ==
    /\ last.op = "SELECT"
    /\ last.ok
    /\ last.arg[1].where_condition # NoCondition
    /\ last.arg[1].where_condition[1].operator_type = "LESS_THAN"
    /\ Len(last.rows) = 1
    /\ Len(Rows(last.name)) = 2

\* C24: every row a SELECT returns has one value for each column of the
\* table's schema at that time, each of the variant of its column's type, and a
\* Text no longer than its VARCHAR length.
C24_SelectedRowsFitSchema ==
    (last.op = "SELECT" /\ last.ok)
    => \A i \in 1..Len(last.rows) : ValidRow(tables[last.name], last.rows[i])

C24_Witness ==
    /\ last.op = "SELECT"
    /\ last.ok
    /\ tables[last.name] = <<COL_NAME>>
    /\ Len(last.rows) = 2
    /\ Len(last.rows[2][1][2]) = COL_NAME.varchar_length

\* the columns with their PRIMARY KEY and NOT NULL flags set as flags says
Flagged(columns, flags) ==
    [i \in 1..Len(columns) |->
        [columns[i] EXCEPT !.is_primary_key = flags[i][1], !.is_not_null = flags[i][2]]]

FlagsOf(columns) == [1..Len(columns) -> BOOLEAN \X BOOLEAN]

\* validation and serialization of the row under the columns: what they return
\* or throw
InsertOutcome(columns, row) ==
    IF Len(row) # Len(columns) THEN <<FALSE>>
    ELSE <<check_values(columns, row, 1), joined(row, columns, 1)>>

\* C25: validate_insert_values and insert_row accept and reject the same rows,
\* and write the same line, whatever the PRIMARY KEY and NOT NULL flags of the
\* columns; a valid row is accepted and appended also when a stored row has the
\* same value in the primary-key column.
C25_FlagsAreNotEnforced ==
    \A n \in DOMAIN tables, row \in RowInputs :
        /\ \A flags \in FlagsOf(tables[n]) :
               InsertOutcome(Flagged(tables[n], flags), row)
                   = InsertOutcome(tables[n], row)
        /\ ValidRow(tables[n], row)
           => /\ execute_insert(InsertStatement(n, row)).ok
              /\ Newlines(execute_insert(InsertStatement(n, row)).table_files[n])
                     = Newlines(Found(n)) + 1

C25_Witness ==
    /\ last.op = "INSERT"
    /\ last.ok
    /\ tables[last.name] = <<COL_NAME>>
    /\ COL_NAME.is_primary_key /\ COL_NAME.is_not_null
    /\ Rows(last.name) = <<last.arg[1].values, last.arg[1].values>>

\* what select_all returns on table n when the data files are `files` and the
\* registry is the one of this state
RowsIn(n, files) == select_all(n, ensure_table_file(n, files[n]).v).v

\* C26: an INSERT into a registered table that fails (wrong number of values,
\* a value of another type, a text too long) appends nothing: select_all of
\* every table returns what it returned before, the registry, the metadata file
\* and the other data files are as before, and the table's own data file is as
\* the insert found it (holding its header line when it did not exist yet).
C26_FailedInsertAppendsNothing ==
    [][(last'.op = "INSERT" /\ ~last'.ok /\ table_exists(last'.name))
       => /\ tables' = tables
          /\ denied' = denied
          /\ metadata_file' = metadata_file
          /\ \A n \in TableNames :
                 /\ RowsIn(n, table_files') = Rows(n)
                 /\ n # last'.name => table_files'[n] = table_files[n]
          /\ table_files'[last'.name] = Found(last'.name)]_vars

C26_Witness ==
    /\ last.op = "INSERT"
    /\ ~last.ok
    /\ last.res[2] = "String too long for column '"
    /\ Len(Rows(last.name)) = 1

\* C27 as stated: a table created anew has no rows, whatever was stored in a
\* table of that name that was dropped, also when the data file could not be
\* removed.
C27_DroppedRowsStayGone ==
    (last.op = "CREATE_TABLE" /\ last.ok) => Rows(last.name) = <<>>

\* C28 as stated: a CREATE TABLE or DROP TABLE that ends in an error, the
\* metadata file that cannot be opened for writing included, leaves the registry
\* as it was before the call.
C28_FailedCatalogCallKeepsRegistry ==
    [][(last'.op \in {"CREATE_TABLE", "DROP_TABLE"} /\ ~last'.ok)
       => tables' = tables]_vars

\* C29: an INSERT, a SELECT or a DROP TABLE on a table name that is not
\* registered returns the error that the table does not exist and changes
\* nothing: the registry, the metadata file and every data file are as before,
\* and no data file is created for the name.
C29_MissingTableChangesNothing ==
    [][(last'.op \in {"INSERT", "SELECT", "DROP_TABLE"} /\ ~table_exists(last'.name))
       => /\ ~last'.ok
          /\ last'.res = <<"Error: ", "Table '", last'.name, "' does not exist">>
          /\ tables' = tables
          /\ metadata_file' = metadata_file
          /\ table_files' = table_files]_vars

C29_Witness ==
    /\ last.op = "INSERT"
    /\ ~last.ok
    /\ last.name = U
    /\ ~table_exists(U)
    /\ table_files[U] = NoFile
    /\ table_exists(T)
    /\ Len(Rows(T)) = 1

\* the digits without their leading zeros
RECURSIVE Stripped(_)
Stripped(digits) ==
    IF Len(digits) > 1 /\ Head(digits) = "0" THEN Stripped(Tail(digits)) ELSE digits

\* digit string a stands for a greater number than digit string b of the same
\* length
DigitsAbove(a, b) ==
    \E k \in 1..Len(a) :
        /\ \A j \in 1..(k - 1) : a[j] = b[j]
        /\ DigitValue(a[k]) > DigitValue(b[k])

\* the literal stands for a number above 2^31 - 1
Exceeds(literal) ==
    \/ Len(Stripped(literal)) > Len(NUM_INT_MAX)
    \/ /\ Len(Stripped(literal)) = Len(NUM_INT_MAX)
       /\ DigitsAbove(Stripped(literal), NUM_INT_MAX)

\* the number a literal that does not exceed stands for
RECURSIVE DecimalValue(_)
DecimalValue(digits) ==
    IF digits = <<>> THEN 0
    ELSE DecimalValue(SubSeq(digits, 1, Len(digits) - 1)) * 10
         + DigitValue(digits[Len(digits)])

\* the statement of the literal ended in an error and nothing was stored
NothingStored ==
    /\ ~last'.ok
    /\ tables' = tables
    /\ metadata_file' = metadata_file
    /\ table_files' = table_files

\* the statement of the literal was carried out with the Integer n
CarriedOutWith(literal, n) ==
    /\ (last'.arg[1] = InsertNumber(literal) /\ table_exists(T))
       => /\ last'.ok
          /\ tables' = tables
          /\ RowsIn(T, table_files') = Append(Rows(T), <<IntV(n)>>)
    /\ (last'.arg[1] = SelectNumber(literal) /\ table_exists(T))
       => /\ last'.ok
          /\ last'.rows = SelectSeq(Rows(T), LAMBDA row : row = <<IntV(n)>>)
    /\ (last'.arg[1] = CreateVarchar(literal) /\ ~table_exists(U) /\ n > 0)
       => /\ last'.ok
          /\ tables'[U][1].varchar_length = n

\* C30: a statement with an integer literal above 2^31 - 1 (a value of an
\* INSERT, the literal of a WHERE clause, a VARCHAR length) ends in an error and
\* nothing is stored; a literal from 0 to 2^31 - 1 is the Integer of exactly
\* that value in the row stored, the rows selected and the VARCHAR length.
C30_NoIntegerWrapsAround ==
    [][last'.op = "SQL"
       => \A literal \in NumberLiterals :
              /\ (/\ Exceeds(literal)
                  /\ last'.arg[1] \in {InsertNumber(literal), SelectNumber(literal),
                                       CreateVarchar(literal)})
                 => NothingStored
              /\ ~Exceeds(literal)
                 => CarriedOutWith(literal, DecimalValue(literal))]_vars

C30_Witness ==
    /\ last.op = "SQL"
    /\ ~last.ok
    /\ last.arg[1] = InsertNumber(NUM_2_32_12)
    /\ Rows(T) = <<<<IntV(INT_MAX)>>>>

====
